---------------------------- MODULE Spec2Model ----------------------------
(***************************************************************************)
(* Model of the achievement-report generator                               *)
(* (achievement_report_app/core/processor.py and core/config.py).          *)
(*                                                                         *)
(* Text.  A Python str is a sequence of characters; a character is a       *)
(* one-element TLA+ string.  ASCII characters stand for themselves; the    *)
(* Chinese characters of the source are written in pinyin:                 *)
(*   xue hao = student id, xing ming = name, ping shi = regular,           *)
(*   qi mo = final, cheng ji = score, zong = total, pingj = "ping" of      *)
(*   zong-ping, fen = points, ban jib = class, hang zheng ban =            *)
(*   administrative class, kao = exam, que/huan/zuo bi/qu xiao/mian xiu/   *)
(*   kuang = the special-status keywords, xu = sequence, wei kong = "is    *)
(*   empty", yi chang = "abnormal".  "NL" and "CR" are line breaks.        *)
(*                                                                         *)
(* Values.  A cell or field value is a record [t, s, v]: t = "None"        *)
(* (Python None), "nan" (float NaN, pandas' missing value), "num" (a       *)
(* number, v) or "str" (text, s).                                          *)
(*                                                                         *)
(* Indices are 0-based as in the source: Cell(df, i, j) is df.iloc[i, j].  *)
(***************************************************************************)
EXTENDS Integers, Sequences, FiniteSets, TLC

VARIABLES
    pc,            \* position of the run
    sid,           \* argument of is_valid_student_id
    sid_ok,        \* its result
    config,        \* the Config object
    validation,    \* result of Config.validate
    xl,            \* the input workbook: a sequence of sheets
    sheet_i,       \* number of sheets of sheets_to_process already handled
    all_students,  \* records extracted so far
    warnings,      \* warnings collected so far
    header_row,    \* header_row of the sheet handled last (-1 is None)
    col_groups,    \* col_groups of the sheet handled last
    students,      \* the list handed to sort_students / create_workbook
    ws_calc,       \* the calculation sheet
    ws_stat,       \* the statistics sheet
    current_sheet, \* the loop variable of "for sheet in sheets_to_process"
    progress,      \* the events passed to the progress callback so far
    error,         \* the exception that ended the run (None if none)
    result,        \* the dictionary process_file returned (None if none)
    save_attempts, \* number of calls of wb.save
    app,           \* attributes of AchievementReportApp shared by both threads
    ui,            \* the UI thread: the handler it runs and its position
    worker,        \* the worker thread: its position and local variables
    files          \* the paths that exist in the file system

vars == <<pc, sid, sid_ok, config, validation, xl, sheet_i, all_students,
          warnings, header_row, col_groups, students, ws_calc, ws_stat,
          current_sheet, progress, error, result, save_attempts,
          app, ui, worker, files>>

-----------------------------------------------------------------------------
(* Values *)

PyNone == [t |-> "None", s |-> <<>>, v |-> 0]
NaN == [t |-> "nan", s |-> <<>>, v |-> 0]
Num(n) == [t |-> "num", s |-> <<>>, v |-> n]
Str(txt) == [t |-> "str", s |-> txt, v |-> 0]

(* Text *)

Range(q) == {q[i] : i \in 1..Len(q)}

Digits == <<"0", "1", "2", "3", "4", "5", "6", "7", "8", "9">>

\* c.isdigit()
isdigit(c) == c \in Range(Digits)

\* c.isspace()
isspace(c) == c \in {" ", "NL", "CR", "TAB"}

\* p in txt (substring test)
Contains(txt, p) ==
    \E i \in 0..(Len(txt) - Len(p)) : SubSeq(txt, i + 1, i + Len(p)) = p

\* any(p in txt for p in ps)
ContainsAny(txt, ps) == \E k \in 1..Len(ps) : Contains(txt, ps[k])

RECURSIVE lstrip(_)
lstrip(txt) ==
    IF txt # <<>> /\ isspace(Head(txt)) THEN lstrip(Tail(txt)) ELSE txt

RECURSIVE rstrip(_)
rstrip(txt) ==
    IF txt # <<>> /\ isspace(txt[Len(txt)])
    THEN rstrip(SubSeq(txt, 1, Len(txt) - 1))
    ELSE txt

\* txt.strip()
strip(txt) == rstrip(lstrip(txt))

\* txt.replace('\n', '').replace('\r', '')
clean(txt) == SelectSeq(txt, LAMBDA c : c \notin {"NL", "CR"})

\* str(n) for an integer n >= 0
RECURSIVE IntStr(_)
IntStr(n) ==
    IF n < 10 THEN <<Digits[n + 1]>> ELSE IntStr(n \div 10) \o <<Digits[(n % 10) + 1]>>

\* str(val) for a cell value
str(val) ==
    CASE val.t = "str" -> val.s
      [] val.t = "num" -> IF val.v < 0 THEN <<"-">> \o IntStr(-val.v) ELSE IntStr(val.v)
      [] val.t = "nan" -> <<"n", "a", "n">>
      [] OTHER -> <<"N", "o", "n", "e">>

\* pd.notna(val)
notna(val) == val.t \notin {"nan", "None"}

-----------------------------------------------------------------------------
(* is_valid_student_id *)

digit_count(s) == Len(SelectSeq(s, isdigit))

\* digit_count / len(sid) >= 0.8 without the 4/5 boundary
is_valid_student_id_strict(s) ==
    IF s = <<>> \/ Len(s) < 5 THEN FALSE
    ELSE IF "." \in Range(s) THEN FALSE
    ELSE digit_count(s) * 10 > 8 * Len(s)

\* digit_count / len(sid) >= 0.8 : the quotient of two small integers is
\* compared with 8/10 exactly
is_valid_student_id(s) ==
    IF s = <<>> \/ Len(s) < 5 THEN FALSE
    ELSE IF "." \in Range(s) THEN FALSE
    ELSE digit_count(s) * 10 >= 8 * Len(s)

-----------------------------------------------------------------------------
(* Config and Config.validate.  achievement_expectation is a float; it is  *)
(* held in tenths (6 is 0.6), so 0 <= e <= 1 reads 0 <= e <= 10.           *)

DefaultConfig ==
    [ratio_1 |-> 50, ratio_2 |-> 30, ratio_3 |-> 20,
     regular_score_ratio |-> 30, final_score_ratio |-> 70,
     achievement_expectation |-> 6]

\* the (bool, message) pair; a message is its fixed text and the value the
\* f-string interpolates
Result(ok, text, current) == [ok |-> ok, msg |-> [text |-> text, current |-> current]]

NoValidation == Result(FALSE, "not validated", 0)

\* validate without the non-negativity test
validate_no_sign_check(c) ==
    IF c.ratio_1 + c.ratio_2 + c.ratio_3 # 100
    THEN Result(FALSE, "target ratios must sum to 100%, currently",
                c.ratio_1 + c.ratio_2 + c.ratio_3)
    ELSE IF c.regular_score_ratio + c.final_score_ratio # 100
    THEN Result(FALSE, "score ratios must sum to 100%, currently",
                c.regular_score_ratio + c.final_score_ratio)
    ELSE IF ~(0 <= c.achievement_expectation /\ c.achievement_expectation <= 10)
    THEN Result(FALSE, "achievement expectation must be within 0-1, currently",
                c.achievement_expectation)
    ELSE Result(TRUE, "", 0)

validate(c) ==
    IF c.ratio_1 + c.ratio_2 + c.ratio_3 # 100
    THEN Result(FALSE, "target ratios must sum to 100%, currently",
                c.ratio_1 + c.ratio_2 + c.ratio_3)
    ELSE IF c.regular_score_ratio + c.final_score_ratio # 100
    THEN Result(FALSE, "score ratios must sum to 100%, currently",
                c.regular_score_ratio + c.final_score_ratio)
    ELSE IF \E x \in {c.ratio_1, c.ratio_2, c.ratio_3,
                      c.regular_score_ratio, c.final_score_ratio} : x < 0
    THEN Result(FALSE, "all ratios must be non-negative", 0)
    ELSE IF ~(0 <= c.achievement_expectation /\ c.achievement_expectation <= 10)
    THEN Result(FALSE, "achievement expectation must be within 0-1, currently",
                c.achievement_expectation)
    ELSE Result(TRUE, "", 0)

-----------------------------------------------------------------------------
(* sort_students: sorted(students, key=lambda x: (x['class'], x['student_id'])) *)

\* the characters of the model with their Unicode code points (pinyin names
\* stand for the Chinese characters of the source)
CodePoints ==
    <<
      <<"0", 48>>, <<"1", 49>>, <<"2", 50>>, <<"3", 51>>, <<"4", 52>>,
      <<"5", 53>>, <<"6", 54>>, <<"7", 55>>, <<"8", 56>>, <<"9", 57>>,
      <<"A", 65>>, <<"B", 66>>, <<"C", 67>>, <<"D", 68>>, <<"E", 69>>,
      <<"F", 70>>, <<"G", 71>>, <<"H", 72>>, <<"I", 73>>, <<"J", 74>>,
      <<"K", 75>>, <<"L", 76>>, <<"M", 77>>, <<"N", 78>>, <<"O", 79>>,
      <<"P", 80>>, <<"Q", 81>>, <<"R", 82>>, <<"S", 83>>, <<"T", 84>>,
      <<"U", 85>>, <<"V", 86>>, <<"W", 87>>, <<"X", 88>>, <<"Y", 89>>,
      <<"Z", 90>>, <<"a", 97>>, <<"b", 98>>, <<"c", 99>>, <<"d", 100>>,
      <<"e", 101>>, <<"f", 102>>, <<"g", 103>>, <<"h", 104>>, <<"i", 105>>,
      <<"j", 106>>, <<"k", 107>>, <<"l", 108>>, <<"m", 109>>, <<"n", 110>>,
      <<"o", 111>>, <<"p", 112>>, <<"q", 113>>, <<"r", 114>>, <<"s", 115>>,
      <<"t", 116>>, <<"u", 117>>, <<"v", 118>>, <<"w", 119>>, <<"x", 120>>,
      <<"y", 121>>, <<"z", 122>>, <<".", 46>>, <<"_", 95>>, <<"-", 45>>,
      <<":", 58>>, <<"(", 40>>, <<")", 41>>, <<" ", 32>>, <<"NL", 10>>,
      <<"CR", 13>>, <<"TAB", 9>>, <<"xue", 23398>>, <<"hao", 21495>>, <<"xing", 22995>>,
      <<"ming", 21517>>, <<"ping", 24179>>, <<"shi", 26102>>, <<"qi", 26399>>, <<"mo", 26411>>,
      <<"cheng", 25104>>, <<"ji", 32489>>, <<"zong", 24635>>, <<"pingj", 35780>>, <<"fen", 20998>>,
      <<"ban", 29677>>, <<"jib", 32423>>, <<"hang", 34892>>, <<"zheng", 25919>>, <<"kao", 32771>>,
      <<"shik", 35797>>, <<"que", 32570>>, <<"huan", 32531>>, <<"zuo", 20316>>, <<"bi", 24330>>,
      <<"qu", 21462>>, <<"xiao", 28040>>, <<"mian", 20813>>, <<"xiu", 20462>>, <<"kuang", 26103>>,
      <<"xu", 24207>>, <<"wei", 20026>>, <<"kong", 31354>>, <<"yi", 24322>>, <<"chang", 24120>>,
      <<"yin", 38899>>, <<"yue", 20048>>, <<"bao", 25253>>, <<"gao", 21578>>, <<"dan", 21333>>,
      <<"da", 36798>>, <<"du", 24230>>, <<"tong", 32479>>, <<"jis", 35745>>, <<"suan", 31639>>,
      <<"jiq", 26426>>, <<"ruan", 36719>>, <<"jian", 20214>>, <<"gong", 24037>>, <<"chengx", 31243>>,
      <<"bei", 22791>>, <<"zhu", 27880>>, <<"fcolon", 65306>>, <<"fparen", 65288>>
    >>

\* ord(c)
ord(c) == CodePoints[CHOOSE k \in 1..Len(CodePoints) : CodePoints[k][1] = c][2]

\* a < b for Python strings: the first differing character decides, a proper
\* prefix is smaller
RECURSIVE StrLess(_, _)
StrLess(a, b) ==
    IF b = <<>> THEN FALSE
    ELSE IF a = <<>> THEN TRUE
    ELSE IF Head(a) # Head(b) THEN ord(Head(a)) < ord(Head(b))
    ELSE StrLess(Tail(a), Tail(b))

\* int(a) of a digit string
RECURSIVE IntOf(_)
IntOf(a) ==
    IF a = <<>> THEN 0
    ELSE IntOf(SubSeq(a, 1, Len(a) - 1)) * 10 + (ord(a[Len(a)]) - ord("0"))

\* the key compared with the student id read as a number
KeyLessNumeric(x, y) ==
    \/ StrLess(x.class, y.class)
    \/ x.class = y.class /\ IntOf(x.student_id) < IntOf(y.student_id)

\* (x['class'], x['student_id']) < (y['class'], y['student_id']) for tuples
KeyLess(x, y) ==
    \/ StrLess(x.class, y.class)
    \/ x.class = y.class /\ StrLess(x.student_id, y.student_id)

\* sorted() is stable: an element goes after every element whose key is not
\* greater than its own
RECURSIVE InsertSorted(_, _)
InsertSorted(out, x) ==
    IF out = <<>> THEN <<x>>
    ELSE IF KeyLess(x, Head(out)) THEN <<x>> \o out
    ELSE <<Head(out)>> \o InsertSorted(Tail(out), x)

RECURSIVE sort_students(_)
sort_students(list) ==
    IF list = <<>> THEN <<>>
    ELSE InsertSorted(sort_students(SubSeq(list, 1, Len(list) - 1)), list[Len(list)])

-----------------------------------------------------------------------------
(* Values the variables of one specification hold while another runs *)

IdleId == sid = <<>> /\ sid_ok = FALSE
IdleConfig == config = DefaultConfig /\ validation = NoValidation
IdleExtract ==
    /\ xl = [filename |-> <<>>, sheets |-> <<>>]
    /\ sheet_i = 0
    /\ all_students = <<>>
    /\ warnings = <<>>
    /\ header_row = -1
    /\ col_groups = <<>>
IdleBook == students = <<>> /\ ws_calc = <<>> /\ ws_stat = <<>>
IdleFile ==
    /\ current_sheet = <<>>
    /\ progress = <<>>
    /\ error = PyNone
    /\ result = PyNone
    /\ save_attempts = 0
IdleApp == app = <<>> /\ ui = <<>> /\ worker = <<>> /\ files = {}

\* all sequences over S of length at most n
SeqsUpTo(S, n) == UNION {[1..k -> S] : k \in 0..n}

-----------------------------------------------------------------------------
(* SpecId: is_valid_student_id applied to bounded strings *)

MaxIdLen == 6

ExampleIds ==
    { <<"2", "0", "2", "3", "1", "2", "3", "4", "5", "6", "7">>,
      <<"0", ".", "0", "2", "8", "2">>,
      <<"A", "B", "C", "d">>,
      <<"1", "2", "a", "3", "4">> }

IdInputs == SeqsUpTo({"2", "a", "."}, MaxIdLen) \cup ExampleIds

InitId ==
    /\ pc = "id_given"
    /\ sid \in IdInputs
    /\ sid_ok = FALSE
    /\ IdleConfig /\ IdleExtract /\ IdleBook /\ IdleFile /\ IdleApp

CheckId ==
    /\ pc = "id_given"
    /\ sid_ok' = is_valid_student_id(sid)
    /\ pc' = "id_checked"
    /\ UNCHANGED <<app, ui, worker, files, sid, config, validation, xl, sheet_i, all_students, warnings,
                   header_row, col_groups, students, ws_calc, ws_stat,
                   current_sheet, progress, error, result, save_attempts>>

NextId == CheckId

SpecId == InitId /\ [][NextId]_vars

\* C4: is_valid_student_id(s) is true exactly when s is non-empty, has at
\* least 5 characters, holds no '.', and at least 80% of its characters are
\* digits; '20231234567' and '12a34' are valid, '0.0282' and 'ABCD' are not.
C4_ValidIdRule ==
    pc = "id_checked" =>
        /\ sid_ok <=>
              /\ Len(sid) > 0
              /\ Len(sid) >= 5
              /\ \A i \in 1..Len(sid) : sid[i] # "."
              /\ 5 * Cardinality({i \in 1..Len(sid) : isdigit(sid[i])}) >= 4 * Len(sid)
        /\ sid = <<"2", "0", "2", "3", "1", "2", "3", "4", "5", "6", "7">> => sid_ok
        /\ sid = <<"1", "2", "a", "3", "4">> => sid_ok
        /\ sid = <<"0", ".", "0", "2", "8", "2">> => ~sid_ok
        /\ sid = <<"A", "B", "C", "d">> => ~sid_ok

\* the 80% boundary case has been decided
C4_Witness ==
    pc = "id_checked" /\ sid = <<"1", "2", "a", "3", "4">> /\ sid_ok

-----------------------------------------------------------------------------
(* SpecConfig: Config.validate applied to bounded configurations *)

TargetRatios == {-20, 0, 20, 21, 30, 50, 120}
ScoreRatios == {-20, 30, 70, 71, 120}
Expectations == {-1, 0, 6, 10, 15}

ConfigInputs ==
    [ratio_1 : TargetRatios, ratio_2 : TargetRatios, ratio_3 : TargetRatios,
     regular_score_ratio : ScoreRatios, final_score_ratio : ScoreRatios,
     achievement_expectation : Expectations]

InitConfig ==
    /\ pc = "config_given"
    /\ config \in ConfigInputs
    /\ validation = NoValidation
    /\ IdleId /\ IdleExtract /\ IdleBook /\ IdleFile /\ IdleApp

Validate ==
    /\ pc = "config_given"
    /\ validation' = validate(config)
    /\ pc' = "validated"
    /\ UNCHANGED <<app, ui, worker, files, sid, sid_ok, config, xl, sheet_i, all_students, warnings,
                   header_row, col_groups, students, ws_calc, ws_stat,
                   current_sheet, progress, error, result, save_attempts>>

NextConfig == Validate

SpecConfig == InitConfig /\ [][NextConfig]_vars

ConfigAcceptable(c) ==
    /\ c.ratio_1 + c.ratio_2 + c.ratio_3 = 100
    /\ c.regular_score_ratio + c.final_score_ratio = 100
    /\ c.ratio_1 >= 0 /\ c.ratio_2 >= 0 /\ c.ratio_3 >= 0
    /\ c.regular_score_ratio >= 0 /\ c.final_score_ratio >= 0
    /\ c.achievement_expectation >= 0 /\ c.achievement_expectation <= 10

\* the constraint a message names is violated by c
MessageTrueOf(m, c) ==
    CASE m.text = "target ratios must sum to 100%, currently" ->
             /\ c.ratio_1 + c.ratio_2 + c.ratio_3 # 100
             /\ m.current = c.ratio_1 + c.ratio_2 + c.ratio_3
      [] m.text = "score ratios must sum to 100%, currently" ->
             /\ c.regular_score_ratio + c.final_score_ratio # 100
             /\ m.current = c.regular_score_ratio + c.final_score_ratio
      [] m.text = "all ratios must be non-negative" ->
             \/ c.ratio_1 < 0 \/ c.ratio_2 < 0 \/ c.ratio_3 < 0
             \/ c.regular_score_ratio < 0 \/ c.final_score_ratio < 0
      [] m.text = "achievement expectation must be within 0-1, currently" ->
             /\ c.achievement_expectation < 0 \/ c.achievement_expectation > 10
             /\ m.current = c.achievement_expectation
      [] OTHER -> FALSE

C6_Verdict ==
    pc = "validated" =>
        /\ validation.ok <=> ConfigAcceptable(config)
        /\ validation.ok => validation.msg.text = ""
        /\ ~validation.ok =>
              validation.msg.text # "" /\ MessageTrueOf(validation.msg, config)
        /\ (config.ratio_1 = 50 /\ config.ratio_2 = 30 /\ config.ratio_3 = 21)
              => ~validation.ok
        /\ (config.ratio_1 = 50 /\ config.ratio_2 = 30 /\ config.ratio_3 = 20
              /\ config.achievement_expectation = 15) => ~validation.ok
        /\ config = DefaultConfig => validation.ok

\* C6: Config.validate accepts exactly the configurations whose target
\* ratios sum to 100, whose score ratios sum to 100, whose five ratios are
\* non-negative and whose expectation lies in [0,1]; a rejection carries a
\* non-empty message naming a constraint that is violated; no field of the
\* configuration is changed by validation.
C6_ValidateExact == [](C6_Verdict) /\ [][config' = config]_vars

\* a configuration with a negative ratio whose sums are right was rejected
\* for its sign
C6_Witness ==
    /\ pc = "validated"
    /\ config.ratio_1 = 120 /\ config.ratio_2 = -20 /\ config.ratio_3 = 0
    /\ config.regular_score_ratio = 30 /\ config.final_score_ratio = 70
    /\ ~validation.ok
    /\ validation.msg.text = "all ratios must be non-negative"

-----------------------------------------------------------------------------
(* SpecSort: sort_students applied to bounded record lists *)

MaxSortLen == 3

\* a student record as extract_students_from_grades builds it
Record(class, student_id, name, final, regular, total, status) ==
    [class |-> class, student_id |-> student_id, name |-> name,
     final_score |-> final, regular_score |-> regular, total_score |-> total,
     status |-> status]

Id2 == <<"2", "0", "2", "3", "2">>
Id10 == <<"2", "0", "2", "3", "1", "0">>
Id5 == <<"2", "0", "2", "3", "5">>

SortRecords ==
    {Record(c, i, Str(<<n>>), Num(80), Num(80), Num(80), PyNone) :
        c \in {<<"A">>, <<"C">>}, i \in {Id2, Id10, Id5}, n \in {"x", "y"}}

InitSort ==
    /\ pc = "sort_given"
    /\ all_students \in SeqsUpTo(SortRecords, MaxSortLen)
    /\ students = <<>>
    /\ xl = [filename |-> <<>>, sheets |-> <<>>]
    /\ sheet_i = 0 /\ warnings = <<>> /\ header_row = -1 /\ col_groups = <<>>
    /\ ws_calc = <<>> /\ ws_stat = <<>>
    /\ IdleId /\ IdleConfig /\ IdleFile /\ IdleApp

Sort ==
    /\ pc = "sort_given"
    /\ students' = sort_students(all_students)
    /\ pc' = "sorted"
    /\ UNCHANGED <<app, ui, worker, files, sid, sid_ok, config, validation, xl, sheet_i, all_students,
                   warnings, header_row, col_groups, ws_calc, ws_stat,
                   current_sheet, progress, error, result, save_attempts>>

NextSort == Sort

SpecSort == InitSort /\ [][NextSort]_vars

\* a is before b in lexicographic (code point) order, or equal to it
LexLeq(a, b) ==
    \/ a = b
    \/ \E k \in 1..Len(b) :
          /\ k <= Len(a) + 1
          /\ \A m \in 1..(k - 1) : a[m] = b[m]
          /\ k = Len(a) + 1 \/ ord(a[k]) < ord(b[k])

KeyLeq(x, y) ==
    \/ x.class # y.class /\ LexLeq(x.class, y.class)
    \/ x.class = y.class /\ LexLeq(x.student_id, y.student_id)

SameKey(x, y) == x.class = y.class /\ x.student_id = y.student_id

\* C5: sort_students returns a permutation of its input in ascending
\* (class, student_id) order under lexicographic string comparison (so the id
\* ending in '10' precedes the id ending in '2'), and records with equal keys
\* keep their input order.
C5_SortLexStable ==
    pc = "sorted" =>
        /\ Len(students) = Len(all_students)
        /\ \A i \in 1..Len(students) : \A j \in 1..Len(students) :
              i < j => KeyLeq(students[i], students[j])
        /\ \A r \in Range(all_students) :
              SelectSeq(students, LAMBDA x : SameKey(x, r))
                  = SelectSeq(all_students, LAMBDA x : SameKey(x, r))
        /\ \A i \in 1..Len(students) : \A j \in 1..Len(students) :
              (i < j /\ students[i].class = students[j].class
                     /\ students[i].student_id = Id2)
                  => students[j].student_id # Id10

\* the example [(C,2), (C,10), (A,5)] has been sorted to [(A,5), (C,10), (C,2)]
C5_Witness ==
    /\ pc = "sorted"
    /\ Len(all_students) = 3
    /\ all_students[1].class = <<"C">> /\ all_students[1].student_id = Id2
    /\ all_students[2].class = <<"C">> /\ all_students[2].student_id = Id10
    /\ all_students[3].class = <<"A">> /\ all_students[3].student_id = Id5
    /\ students = <<all_students[3], all_students[2], all_students[1]>>

-----------------------------------------------------------------------------
(* Regular expressions of the class-identity search.  A pattern is a       *)
(* sequence of quantified character classes with one capture group; it is  *)
(* matched as re.search matches it: leftmost start, each quantifier greedy *)
(* with backtracking.                                                      *)

\* one quantified element; max = -1 is unbounded
El(k, c, min, max) == [k |-> k, c |-> c, min |-> min, max |-> max]
Lit(c) == El("lit", c, 1, 1)

\* els: the elements; g1..g2: the elements of group 1; bol, eol: ^ and $
Pattern(els, g1, g2, bol, eol) ==
    [els |-> els, g1 |-> g1, g2 |-> g2, bol |-> bol, eol |-> eol]

\* whether character c is in the class of element e
InClass(e, c) ==
    CASE e.k = "lit" -> c = e.c
      [] e.k = "d" -> isdigit(c)                                 \* \d
      [] e.k = "s" -> isspace(c)                                 \* \s
      [] e.k = "sep" -> c \in {"fcolon", ":"} \/ isspace(c)      \* [fcolon:\s]
      [] e.k = "tok" -> ~isspace(c) /\ c \notin {"(", "fparen"}  \* [^\s(fparen]
      [] e.k = "nd_" -> ~isdigit(c) /\ c # "_"                   \* [^\d_]
      [] e.k = "n_" -> c # "_"                                   \* [^_]
      [] e.k = "az" -> \/ ord(c) \in 65..90 \/ ord(c) \in 97..122 \* [a-zA-Z CJK]
                       \/ ord(c) \in 19968..40869
      [] OTHER -> FALSE

\* the longest run of characters of e's class at pos, capped by e.max
RECURSIVE RunLen(_, _, _, _)
RunLen(e, txt, pos, n) ==
    IF pos + n < Len(txt) /\ (e.max = -1 \/ n < e.max) /\ InClass(e, txt[pos + n + 1])
    THEN RunLen(e, txt, pos, n + 1)
    ELSE n

\* $ : the end of the string, or just before a final line break
AtEnd(txt, pos) ==
    \/ pos = Len(txt)
    \/ pos = Len(txt) - 1 /\ txt[Len(txt)] = "NL"

\* Elements k.. of p matched at pos: the positions at which elements k, k+1,
\* ... start followed by the end of the match, or <<>> when there is no match.
RECURSIVE MatchAt(_, _, _, _)
MatchAt(p, k, txt, pos) ==
    IF k > Len(p.els)
    THEN IF p.eol /\ ~AtEnd(txt, pos) THEN <<>> ELSE <<pos>>
    ELSE LET e == p.els[k]
             RECURSIVE Try(_)
             Try(n) ==
                 IF n < e.min THEN <<>>
                 ELSE LET rest == MatchAt(p, k + 1, txt, pos + n)
                      IN  IF rest # <<>> THEN <<pos>> \o rest ELSE Try(n - 1)
         IN  Try(RunLen(e, txt, pos, 0))

\* group(1) of a match m
Group(p, txt, m) == SubSeq(txt, m[p.g1] + 1, m[p.g2 + 1])

\* re.search(p, txt).group(1), or <<>> when nothing matches (a group of
\* these patterns is never empty)
GroupOr(p, txt, m, otherwise) == IF m # <<>> THEN Group(p, txt, m) ELSE otherwise

RECURSIVE SearchFrom(_, _, _)
SearchFrom(p, txt, start) ==
    IF start > Len(txt) THEN <<>>
    ELSE GroupOr(p, txt, MatchAt(p, 1, txt, start),
                 IF p.bol THEN <<>> ELSE SearchFrom(p, txt, start + 1))

re_search(p, txt) == SearchFrom(p, txt, 0)

-----------------------------------------------------------------------------
(* The words of the source *)

XueHao == <<"xue", "hao">>
XingMing == <<"xing", "ming">>
BanJi == <<"ban", "jib">>
XingZhengBan == <<"hang", "zheng", "ban">>
ChengJi == <<"cheng", "ji">>
ZongPing == <<"zong", "pingj">>
PingShi == <<"ping", "shi">>
QiMo == <<"qi", "mo">>
BaoGao == <<"bao", "gao">>

\* (?:XingZhengBan|BanJi)[fcolon:\s]\s*([^\s(fparen]+), one alternative each
BannerPatterns ==
    << Pattern(<<Lit("hang"), Lit("zheng"), Lit("ban"), El("sep", "", 1, 1),
                 El("s", "", 0, -1), El("tok", "", 1, -1)>>, 6, 6, FALSE, FALSE),
       Pattern(<<Lit("ban"), Lit("jib"), El("sep", "", 1, 1),
                 El("s", "", 0, -1), El("tok", "", 1, -1)>>, 5, 5, FALSE, FALSE) >>

\* re.search over the alternation: the leftmost position at which an
\* alternative matches, the first alternative first
RECURSIVE BannerSearchFrom(_, _)
BannerSearchFrom(txt, start) ==
    IF start > Len(txt) THEN <<>>
    ELSE GroupOr(BannerPatterns[1], txt, MatchAt(BannerPatterns[1], 1, txt, start),
         GroupOr(BannerPatterns[2], txt, MatchAt(BannerPatterns[2], 1, txt, start),
                 BannerSearchFrom(txt, start + 1)))

\* _([^\d_][^_]+)$
TrailingSegment ==
    Pattern(<<Lit("_"), El("nd_", "", 1, 1), El("n_", "", 1, -1)>>, 2, 3, FALSE, TRUE)

file_patterns ==
    << \* (\d{2,4} jib [^\d_]+ \d* ban)
       Pattern(<<El("d", "", 2, 4), Lit("jib"), El("nd_", "", 1, -1),
                 El("d", "", 0, -1), Lit("ban")>>, 1, 5, FALSE, FALSE),
       \* ([a-zA-Z CJK]+\d{4})
       Pattern(<<El("az", "", 1, -1), El("d", "", 4, 4)>>, 1, 2, FALSE, FALSE),
       \* _([^\d_][^_]+)$
       TrailingSegment,
       \* ^([^\d_]+\d+ ban)
       Pattern(<<El("nd_", "", 1, -1), El("d", "", 1, -1), Lit("ban")>>, 1, 3, TRUE, FALSE) >>

sheet_exclude_keywords ==
    << <<"da", "cheng", "du">> \o BaoGao, ChengJi \o <<"dan">>, ChengJi, ZongPing,
       QiMo, PingShi, BaoGao, <<"tong", "jis">> >>

file_exclude_keywords ==
    << <<"da", "cheng", "du">> \o BaoGao, ChengJi \o <<"dan">>, ChengJi, ZongPing,
       QiMo, PingShi, BaoGao >>

-----------------------------------------------------------------------------
(* extract_students_from_grades: the grid *)

HeaderScanRows == 50
BannerScanCols == 5

Min2(a, b) == IF a < b THEN a ELSE b
Max2(a, b) == IF a > b THEN a ELSE b

\* len(df), len(df.columns), df.iloc[i, j]
NRows(df) == Len(df)
NCols(df) == IF df = <<>> THEN 0 ELSE Len(df[1])
Cell(df, i, j) == df[i + 1][j + 1]

\* str(v).strip() if pd.notna(v) else ''
cell_text(val) == IF notna(val) THEN strip(str(val)) ELSE <<>>

\* row_values of row i; column j of the source is element j + 1
row_values(df, i) == [j \in 1..NCols(df) |-> cell_text(df[i + 1][j])]

\* the column indices j (ascending) whose text satisfies P
ColsWhere(rv, P(_)) ==
    SelectSeq([k \in 1..Len(rv) |-> k - 1], LAMBDA j : P(rv[j + 1]))

-----------------------------------------------------------------------------
(* 1. class identity of a sheet; '' and None are both <<>> (the source     *)
(* tests class_name only by truth value)                                   *)

\* a or b of two texts: the first unless it is empty
PyOr(a, b) == IF a # <<>> THEN a ELSE b

\* match.group(1).strip() for one cell, <<>> when the cell is NaN or has no match
banner_match(val) ==
    IF notna(val) THEN strip(BannerSearchFrom(cell_text(val), 0)) ELSE <<>>

\* the scan from cell number n on, rows of w cells, in row-major order
RECURSIVE banner_scan(_, _, _)
banner_scan(df, n, w) ==
    IF n >= NRows(df) * w THEN <<>>
    ELSE PyOr(banner_match(Cell(df, n \div w, n % w)), banner_scan(df, n + 1, w))

\* 1.1 the first cell, row by row over the first columns, that matches
banner_class(df) == banner_scan(df, 0, Min2(BannerScanCols, NCols(df)))

\* 1.2 the trailing segment of the sheet name
Admissible(candidate, exclude_keywords) ==
    IF candidate # <<>> /\ ~ContainsAny(candidate, exclude_keywords)
    THEN candidate ELSE <<>>

sheet_class(sheet) ==
    Admissible(strip(re_search(TrailingSegment, sheet)), sheet_exclude_keywords)

\* 1.3 the first file-name pattern that matches with an admissible candidate
RECURSIVE file_class_from(_, _)
file_class_from(filename_no_ext, k) ==
    IF k > Len(file_patterns) THEN <<>>
    ELSE PyOr(Admissible(strip(re_search(file_patterns[k], filename_no_ext)),
                         file_exclude_keywords),
              file_class_from(filename_no_ext, k + 1))

file_class(filename_no_ext) == file_class_from(filename_no_ext, 1)

\* the resolution that consults the sheet name before the grid
resolve_class_name_sheet_first(df, sheet, filename_no_ext) ==
    PyOr(sheet_class(sheet), PyOr(banner_class(df), file_class(filename_no_ext)))

resolve_class_name(df, sheet, filename_no_ext) ==
    PyOr(banner_class(df), PyOr(sheet_class(sheet), file_class(filename_no_ext)))

-----------------------------------------------------------------------------
(* 2. header row and column groups *)

IsHeaderRow(rv) ==
    /\ \E j \in 1..Len(rv) : Contains(rv[j], XueHao)
    /\ \E j \in 1..Len(rv) : Contains(rv[j], XingMing)

HeaderCandidates(df) ==
    {i \in 0..(Min2(HeaderScanRows, NRows(df)) - 1) : IsHeaderRow(row_values(df, i))}

\* the scan that keeps the last qualifying row instead of stopping
find_header_row_last(df) ==
    LET cand == HeaderCandidates(df)
    IN  IF cand = {} THEN -1 ELSE CHOOSE i \in cand : \A o \in cand : o <= i

\* for i in range(min(50, len(df))): ... break  -- the first qualifying row
find_header_row(df) ==
    LET cand == HeaderCandidates(df)
    IN  IF cand = {} THEN -1 ELSE CHOOSE i \in cand : \A o \in cand : i <= o

ClassHeaders == {BanJi, XingZhengBan}

\* 1.4 header_class_cols: class columns of the header row, compared as is
header_class_cols(df) ==
    LET h == find_header_row(df)
    IN  IF h = -1 THEN <<>>
        ELSE ColsWhere(row_values(df, h), LAMBDA v : v \in ClassHeaders)

final_patterns == <<QiMo \o ChengJi, QiMo, QiMo \o <<"kao", "shik">> >>
regular_patterns == <<PingShi \o ChengJi, PingShi, PingShi \o <<"fen">> >>
total_specific == <<<<"zong">> \o ChengJi, ZongPing \o ChengJi, <<"zong", "fen">> >>
total_generic == {ChengJi, ZongPing}

\* the test with the generic total texts matched by containment
KeyMatches_generic_contains(key, cvc) ==
    CASE key = "name" -> Contains(cvc, XingMing)
      [] key = "final_score" -> ContainsAny(cvc, final_patterns)
      [] key = "regular_score" -> ContainsAny(cvc, regular_patterns)
      [] key = "total_score" -> ContainsAny(cvc, total_specific)
                                  \/ \E g \in total_generic : Contains(cvc, g)
      [] key = "class_col" -> cvc \in ClassHeaders

\* the test the loop body applies to cell_value_clean for each key it sets
KeyMatches(key, cvc) ==
    CASE key = "name" -> Contains(cvc, XingMing)
      [] key = "final_score" -> ContainsAny(cvc, final_patterns)
      [] key = "regular_score" -> ContainsAny(cvc, regular_patterns)
      [] key = "total_score" -> ContainsAny(cvc, total_specific) \/ cvc \in total_generic
      [] key = "class_col" -> cvc \in ClassHeaders

\* one pass of the loop body over column j: every key that is not yet in the
\* mapping and whose test holds of the cell is set to j
ScanCell(m, j, cvc) ==
    m @@ [key \in {k \in {"name", "final_score", "regular_score", "total_score", "class_col"} :
                      k \notin DOMAIN m /\ KeyMatches(k, cvc)} |-> j]

RECURSIVE ScanWindow(_, _, _, _)
ScanWindow(rv, j, group_end, m) ==
    IF j >= group_end THEN m
    ELSE ScanWindow(rv, j + 1, group_end, ScanCell(m, j, clean(strip(rv[j + 1]))))

\* the nearest class column before the id column, else 0 (class_cols ascends)
group_start(class_cols, sid_col) ==
    LET before == SelectSeq(class_cols, LAMBDA cc : cc < sid_col)
    IN  IF before = <<>> THEN 0 ELSE before[Len(before)]

\* the next class column after the id column, else the row's length
group_end(class_cols, sid_col, rv) ==
    LET after == SelectSeq(class_cols, LAMBDA cc : cc > sid_col)
    IN  IF after = <<>> THEN Len(rv) ELSE after[1]

student_id_cols(rv) == ColsWhere(rv, LAMBDA v : Contains(v, XueHao))
class_cols(rv) == ColsWhere(rv, LAMBDA v : clean(v) \in ClassHeaders)

\* the col_mapping built for the group seeded by sid_col
build_mapping(rv, sid_col) ==
    ScanWindow(rv, group_start(class_cols(rv), sid_col),
               group_end(class_cols(rv), sid_col, rv), ("student_id" :> sid_col))

required_cols == <<"student_id", "name", "final_score", "regular_score", "total_score">>

missing_cols(m) == SelectSeq(required_cols, LAMBDA c : c \notin DOMAIN m)

\* acceptance that looks only at the id and name columns
group_accepted_lax(m) == "student_id" \in DOMAIN m /\ "name" \in DOMAIN m

\* if not missing_cols
group_accepted(m) == missing_cols(m) = <<>>

col_name_map(c) ==
    CASE c = "student_id" -> XueHao
      [] c = "name" -> XingMing
      [] c = "final_score" -> QiMo \o ChengJi
      [] c = "regular_score" -> PingShi \o ChengJi
      [] c = "total_score" -> <<"zong">> \o ChengJi

\* a warning: the sheet it names, its fixed text (kind) and the labels it lists
Warning(sheet, kind, missing) == [sheet |-> sheet, kind |-> kind, missing |-> missing]

\* a missing-column warning for every incomplete group
reports_missing_every(sid_col, sid_cols) == TRUE

\* elif sid_col == student_id_cols[0]
reports_missing(sid_col, sid_cols) == sid_col = sid_cols[1]

\* the candidate mapping of every id-token column, in column order
candidate_mappings(rv) ==
    LET sid_cols == student_id_cols(rv)
    IN  [k \in 1..Len(sid_cols) |-> build_mapping(rv, sid_cols[k])]

\* the warning that names the labels mapping m lacks
missing_warning(sheet, m) ==
    Warning(sheet, "missing_columns",
            [n \in 1..Len(missing_cols(m)) |-> col_name_map(missing_cols(m)[n])])

RECURSIVE missing_warnings(_, _, _, _)
missing_warnings(sid_cols, maps, sheet, k) ==
    IF k > Len(sid_cols) THEN <<>>
    ELSE (IF ~group_accepted(maps[k]) /\ reports_missing(sid_cols[k], sid_cols)
          THEN <<missing_warning(sheet, maps[k])>> ELSE <<>>)
         \o missing_warnings(sid_cols, maps, sheet, k + 1)

accepted_groups(maps) == SelectSeq(maps, group_accepted)

-----------------------------------------------------------------------------
(* 3. rows *)

special_keywords ==
    << <<"que", "kao">>, <<"huan", "kao">>, <<"zuo", "bi">>, <<"qu", "xiao">>,
       <<"mian", "xiu">>, <<"kuang", "kao">> >>

ScoreEmpty == <<"cheng", "ji", "wei", "kong">>
ScoreAbnormal == <<"cheng", "ji", "yi", "chang">>

\* is_empty(val)
is_empty(val) ==
    IF val.t = "None" THEN TRUE
    ELSE IF val.t = "nan" THEN TRUE
    ELSE strip(str(val)) = <<>>

\* float(val): [ok, val]; ok = FALSE is ValueError / TypeError.  A number is
\* itself, NaN stays NaN, text is parsed after stripping: a run of digits is
\* its value and 'nan' is NaN (signs, decimal points and exponents do not occur
\* in the texts of this model), anything else fails
to_float(val) ==
    CASE val.t = "num" -> [ok |-> TRUE, val |-> val]
      [] val.t = "nan" -> [ok |-> TRUE, val |-> NaN]
      [] val.t = "str" ->
            LET txt == strip(val.s)
            IN  IF txt # <<>> /\ \A k \in 1..Len(txt) : isdigit(txt[k])
                THEN [ok |-> TRUE, val |-> Num(IntOf(txt))]
                ELSE IF txt \in {<<"n", "a", "n">>, <<"N", "a", "N">>, <<"N", "A", "N">>}
                THEN [ok |-> TRUE, val |-> NaN]
                ELSE [ok |-> FALSE, val |-> PyNone]
      [] OTHER -> [ok |-> FALSE, val |-> PyNone]

\* the scan that records the keyword found instead of the cell's text
keyword_status_keyword(raws) ==
    LET hit == SelectSeq(raws, LAMBDA raw :
                   notna(raw) /\ ContainsAny(strip(str(raw)), special_keywords))
        kws == SelectSeq(special_keywords, LAMBDA kw : Contains(strip(str(hit[1])), kw))
    IN  IF hit = <<>> THEN PyNone ELSE Str(kws[1])

\* the keyword scan over [final_raw, regular_raw, total_raw]: the stripped text
\* of the first cell that holds a keyword, else None
keyword_status(raws) ==
    LET hit == SelectSeq(raws, LAMBDA raw :
                   notna(raw) /\ ContainsAny(strip(str(raw)), special_keywords))
    IN  IF hit = <<>> THEN PyNone ELSE Str(strip(str(hit[1])))

\* min(header_class_cols, key=lambda x: abs(x - sid_col))
Abs(n) == IF n < 0 THEN -n ELSE n
closest_class_col(hcc, sid_col) ==
    hcc[CHOOSE k \in 1..Len(hcc) :
            /\ \A o \in 1..Len(hcc) : Abs(hcc[k] - sid_col) <= Abs(hcc[o] - sid_col)
            /\ \A o \in 1..(k - 1) : Abs(hcc[o] - sid_col) > Abs(hcc[k] - sid_col)]

\* the choice that reads the nearest class column whenever the sheet has one
student_class_column_first(df, i, m, class_name, use_class_column, hcc) ==
    IF "class_col" \in DOMAIN m THEN cell_text(Cell(df, i, m.class_col))
    ELSE IF hcc # <<>>
    THEN cell_text(Cell(df, i, closest_class_col(hcc, m.student_id)))
    ELSE class_name

\* the class of a record
student_class(df, i, m, class_name, use_class_column, hcc) ==
    IF "class_col" \in DOMAIN m THEN cell_text(Cell(df, i, m.class_col))
    ELSE IF use_class_column /\ hcc # <<>>
    THEN cell_text(Cell(df, i, closest_class_col(hcc, m.student_id)))
    ELSE class_name

\* the row loop that skips a row whose scores fail numeric conversion
row_records_skip_abnormal(df, i, m, class_name, use_class_column, hcc) ==
    LET id_cell == Cell(df, i, m.student_id)
        student_id == IF notna(id_cell) THEN str(id_cell) ELSE <<>>
        name == Cell(df, i, m.name)
        class == student_class(df, i, m, class_name, use_class_column, hcc)
        final_raw == Cell(df, i, m.final_score)
        regular_raw == Cell(df, i, m.regular_score)
        total_raw == Cell(df, i, m.total_score)
        all_empty == is_empty(final_raw) /\ is_empty(regular_raw) /\ is_empty(total_raw)
        special_status == IF all_empty THEN Str(ScoreEmpty)
                          ELSE keyword_status(<<final_raw, regular_raw, total_raw>>)
        f == to_float(final_raw)
        r == to_float(regular_raw)
        t == to_float(total_raw)
    IN  IF ~is_valid_student_id(student_id) THEN <<>>
        ELSE IF special_status # PyNone
        THEN <<Record(class, student_id, name, PyNone, PyNone, PyNone, special_status)>>
        ELSE IF f.ok /\ r.ok /\ t.ok
        THEN <<Record(class, student_id, name, f.val, r.val, t.val, PyNone)>>
        ELSE <<>>

\* the records (none or one) that row i yields for group m
row_records(df, i, m, class_name, use_class_column, hcc) ==
    LET id_cell == Cell(df, i, m.student_id)
        student_id == IF notna(id_cell) THEN str(id_cell) ELSE <<>>
        name == Cell(df, i, m.name)
        class == student_class(df, i, m, class_name, use_class_column, hcc)
        final_raw == Cell(df, i, m.final_score)
        regular_raw == Cell(df, i, m.regular_score)
        total_raw == Cell(df, i, m.total_score)
        all_empty == is_empty(final_raw) /\ is_empty(regular_raw) /\ is_empty(total_raw)
        special_status == IF all_empty THEN Str(ScoreEmpty)
                          ELSE keyword_status(<<final_raw, regular_raw, total_raw>>)
        f == to_float(final_raw)
        r == to_float(regular_raw)
        t == to_float(total_raw)
    IN  IF ~is_valid_student_id(student_id) THEN <<>>
        ELSE IF special_status # PyNone
        THEN <<Record(class, student_id, name, PyNone, PyNone, PyNone, special_status)>>
        ELSE IF f.ok /\ r.ok /\ t.ok
        THEN <<Record(class, student_id, name, f.val, r.val, t.val, PyNone)>>
        ELSE <<Record(class, student_id, name, PyNone, PyNone, PyNone, Str(ScoreAbnormal))>>

RECURSIVE group_records(_, _, _, _, _, _, _)
group_records(df, i, groups, k, class_name, use_class_column, hcc) ==
    IF k > Len(groups) THEN <<>>
    ELSE row_records(df, i, groups[k], class_name, use_class_column, hcc)
         \o group_records(df, i, groups, k + 1, class_name, use_class_column, hcc)

\* for i in range(data_start_row, len(df)): for col_mapping in col_groups
RECURSIVE sheet_records(_, _, _, _, _, _)
sheet_records(df, i, groups, class_name, use_class_column, hcc) ==
    IF i >= NRows(df) THEN <<>>
    ELSE group_records(df, i, groups, 1, class_name, use_class_column, hcc)
         \o sheet_records(df, i + 1, groups, class_name, use_class_column, hcc)

\* col_mapping[role] of a role the mapping lacks raises KeyError; it is reached
\* at the first row with a valid id in such a group
raises_key_error(df, h, groups) ==
    \E k \in 1..Len(groups) : \E i \in (h + 1)..(NRows(df) - 1) :
        /\ missing_cols(groups[k]) # <<>>
        /\ LET id_cell == Cell(df, i, groups[k].student_id)
           IN  is_valid_student_id(IF notna(id_cell) THEN str(id_cell) ELSE <<>>)

has_missing_warning(ws, sheet) ==
    \E k \in 1..Len(ws) : ws[k].kind = "missing_columns" /\ ws[k].sheet = sheet

\* What one iteration of "for sheet in sheets_to_process" leaves behind: the
\* warnings list, the locals header_row and col_groups, the records appended,
\* and whether a KeyError ended it
SheetResult(ws, h, groups, records, raised) ==
    [warnings |-> ws, header_row |-> h, col_groups |-> groups, records |-> records,
     raised |-> raised]

\* lines 276-358: the rows below the header row, for the accepted groups
extract_rows(df, ws, h, groups, class_name, hcc) ==
    IF raises_key_error(df, h, groups)
    THEN SheetResult(ws, h, groups, <<>>, TRUE)
    ELSE SheetResult(ws, h, groups,
                     sheet_records(df, h + 1, groups, class_name,
                                   hcc # <<>> /\ class_name = <<>>, hcc),
                     FALSE)

\* lines 268-273: no complete group, and no warning about this sheet's columns
no_group_warning(ws, sheet) ==
    IF has_missing_warning(ws, sheet) THEN ws
    ELSE Append(ws, Warning(sheet, "no_complete_group", <<>>))

\* lines 196-260 and 268-358 once the candidate mappings of the header row
\* are built
extract_groups(sh, ws, h, sid_cols, maps, class_name, hcc) ==
    IF accepted_groups(maps) = <<>>
    THEN SheetResult(no_group_warning(ws \o missing_warnings(sid_cols, maps, sh.name, 1),
                                      sh.name),
                     h, <<>>, <<>>, FALSE)
    ELSE extract_rows(sh.df, ws \o missing_warnings(sid_cols, maps, sh.name, 1), h,
                      accepted_groups(maps), class_name, hcc)

\* lines 190-358 once the header row is known
extract_below(sh, ws, h, rv, class_name, hcc) ==
    extract_groups(sh, ws, h, student_id_cols(rv), candidate_mappings(rv), class_name, hcc)

\* lines 172-176: the warning that no class information was found
class_warning(ws, sheet, class_name, hcc) ==
    IF class_name = <<>> /\ hcc = <<>>
    THEN Append(ws, Warning(sheet, "no_class_info", <<>>)) ELSE ws

\* the skip of a sheet without header row that records no warning
extract_sheet_silent(sh, ws, class_name, hcc, h) ==
    IF h = -1
    THEN SheetResult(ws, -1, <<>>, <<>>, FALSE)
    ELSE extract_below(sh, class_warning(ws, sh.name, class_name, hcc), h,
                       row_values(sh.df, h), class_name, hcc)

\* lines 172-358 once class_name, header_class_cols and header_row are known
extract_sheet(sh, ws, class_name, hcc, h) ==
    IF h = -1
    THEN SheetResult(Append(class_warning(ws, sh.name, class_name, hcc),
                            Warning(sh.name, "no_header_row", <<>>)),
                     -1, <<>>, <<>>, FALSE)
    ELSE extract_below(sh, class_warning(ws, sh.name, class_name, hcc), h,
                       row_values(sh.df, h), class_name, hcc)

\* one iteration of "for sheet in sheets_to_process"
process_sheet(sh, filename_no_ext, ws) ==
    extract_sheet(sh, ws, resolve_class_name(sh.df, sh.name, filename_no_ext),
                  header_class_cols(sh.df), find_header_row(sh.df))

Sheet1 == <<"S", "h", "e", "e", "t", "1">>

\* the selection that drops 'Sheet1' whatever the number of sheets
sheets_to_process_skip_always(book) ==
    SelectSeq(book.sheets, LAMBDA sh : sh.name # Sheet1)

\* xl.sheet_names if there is one sheet, else those not named 'Sheet1'
sheets_to_process(book) ==
    IF Len(book.sheets) = 1 THEN book.sheets
    ELSE SelectSeq(book.sheets, LAMBDA sh : sh.name # Sheet1)

-----------------------------------------------------------------------------
(* Spec: extract_students_from_grades run on bounded workbooks *)

MaxGroups == 2

HId == XueHao
HName == XingMing
HRegular == PingShi \o ChengJi
HFinal == QiMo \o ChengJi
HTotal == <<"zong">> \o ChengJi
HTotalTwoLines == <<"zong", "pingj", "NL", "cheng", "ji">>
HGeneric == ChengJi
HClass == BanJi
HSeq == <<"xu", "hao">>
HNote == <<"bei", "zhu">>

\* header texts of one column group, as they are laid out in real sheets
Layouts ==
    { <<HClass, HId, HName, HRegular, HFinal, HTotal>>,
      <<HId, HName, HRegular, HFinal, HTotal>>,
      <<HId, HName, HRegular, HFinal>>,
      <<HClass, HId, HName, HFinal, HTotalTwoLines>>,
      <<HId, HName, HRegular, HFinal, HGeneric, HClass>>,
      <<HSeq, HNote>>,
      <<HId>>,
      <<HName, HRegular, HFinal, HTotal>> }

RECURSIVE Flatten(_)
Flatten(ss) == IF ss = <<>> THEN <<>> ELSE Head(ss) \o Flatten(Tail(ss))

\* the header rows: one to MaxGroups layouts side by side
HeaderTexts == {Flatten(g) : g \in SeqsUpTo(Layouts, MaxGroups) \ {<<>>}}

\* the student id written in row k, column j: ten digits, distinct per cell
IdAt(k, j) == <<"2", "0", "2", "3">> \o IntStr(100 + k) \o IntStr(100 + j)

\* the data cell under a header text; scores = <<regular, final, total>>
CellUnder(h, k, j, id, scores) ==
    CASE h = HId -> id
      [] h = HName -> Str(<<"x">>)
      [] h = HRegular -> scores[1]
      [] h = HFinal -> scores[2]
      [] h \in {HTotal, HTotalTwoLines, HGeneric} -> scores[3]
      [] h = HClass -> Str(<<"C">> \o IntStr(j))
      [] OTHER -> NaN

HeaderCells(texts) == [j \in 1..Len(texts) |-> Str(texts[j])]

\* the data row number k laid out under the header texts
DataCells(texts, k, scores) ==
    [j \in 1..Len(texts) |->
        CellUnder(texts[j], k, j - 1, Str(IdAt(k, j - 1)), scores)]

DataCellsWithId(texts, id, scores) ==
    [j \in 1..Len(texts) |-> CellUnder(texts[j], 0, j - 1, id, scores)]

TitleCells == <<Str(ChengJi \o <<"dan">>)>>

Pad(row, w) == [j \in 1..w |-> IF j <= Len(row) THEN row[j] ELSE NaN]

Widest(rows) == CHOOSE w \in {Len(rows[k]) : k \in 1..Len(rows)} :
                    \A k \in 1..Len(rows) : Len(rows[k]) <= w

\* a rectangular grid: lead title rows, then the rows given
Grid(lead, rows) ==
    LET all == [k \in 1..lead |-> TitleCells] \o rows
    IN  [k \in 1..Len(all) |-> Pad(all[k], Widest(all))]

NormalScores == <<Num(80), Num(90), Num(87)>>

PlainName == <<"a", "b", "c">>
MusicSheet == <<"9", "0", "0", "7", "-", "0", "0", "0", "1", "_", "yin", "yue", "2", "2", "1", "2">>

Sheet(name, df) == [name |-> name, df |-> df]
Book(sheets) == [filename |-> PlainName, sheets |-> sheets]

\* one header row of any layout, one data row under it
WideSheets ==
    {Sheet(n, Grid(0, <<HeaderCells(t), DataCells(t, 1, NormalScores)>>)) :
        n \in {Sheet1, MusicSheet}, t \in HeaderTexts}

LeadChoices == {0, 1, HeaderScanRows - 1, HeaderScanRows}

SecondLayouts ==
    { <<HClass, HId, HName, HRegular, HFinal, HTotal>>,
      <<HId, HName, HRegular, HFinal, HTotal>>,
      <<HId, HName, HRegular, HFinal>> }

\* title rows, a first row of one layout, a second header row (or none) and a
\* data row laid out under either of them
StackedSheets ==
    {Sheet(Sheet1, Grid(lead, <<HeaderCells(t1)>> \o s2
                              \o <<DataCells(t3, lead + 1 + Len(s2), NormalScores)>>)) :
        lead \in LeadChoices, t1 \in Layouts,
        s2 \in {<<>>} \cup {<<HeaderCells(t)>> : t \in SecondLayouts},
        t3 \in SecondLayouts}

ScoreCells ==
    { NaN, Num(80), Str(<<"8", "5">>), Str(<<" ">>), Str(<<"a">>),
      Str(<<"huan", "kao">>), Str(<<"que", "kao", "(", "a", ")">>) }

IdCells == { Str(IdAt(1, 0)), Str(<<"1", "2", "a", "3", "4">>), Str(<<"2", "0", "2", "3">>),
             Num(20231234), NaN }

\* a complete header and one data row with any id cell and any score cells
RowSheets ==
    {Sheet(Sheet1, Grid(0, <<HeaderCells(t), DataCellsWithId(t, id, <<r, f, tt>>),
                            DataCells(t, 2, NormalScores)>>)) :
        t \in {<<HClass, HId, HName, HRegular, HFinal, HTotal>>,
               <<HId, HName, HRegular, HFinal, HTotal>>},
        id \in IdCells, r \in ScoreCells, f \in ScoreCells, tt \in ScoreCells}

\* workbooks of two sheets
PairSheets ==
    { Grid(0, <<HeaderCells(t), DataCells(t, 1, s)>>) :
        t \in {<<HId, HName, HRegular, HFinal, HTotal>>, <<HId, HName, HRegular, HFinal>>,
               <<HSeq, HNote>>},
        s \in {NormalScores, <<NaN, NaN, NaN>>} }

\* the columns a sheet may carry for the total: generic, specific, or both
TotalTexts == {HGeneric, ZongPing, HTotal, HTotalTwoLines, <<"zong", "fen">>}

TotalTails == {<<a>> : a \in TotalTexts} \cup {<<a, b>> : a \in TotalTexts, b \in TotalTexts}

\* one group whose window holds one or two candidate total columns
TotalSheets ==
    {Sheet(Sheet1, Grid(0, <<HeaderCells(<<HId, HName, HRegular, HFinal>> \o tail),
                            DataCells(<<HId, HName, HRegular, HFinal>> \o tail, 1,
                                      NormalScores)>>)) :
        tail \in TotalTails}

\* a banner cell: XingZhengBan, full-width colon, a token, an alias in brackets
BannerCell == Str(XingZhengBan \o <<"fcolon", "ruan", "jian", "2", "3", "0", "1", "(", "a", ")">>)

\* a row with the banner in column j
BannerRow(j) == [c \in 1..(j + 1) |-> IF c = j + 1 THEN BannerCell ELSE NaN]

ReportSheet == <<"a", "b", "c", "_">> \o ChengJi \o <<"dan">>

\* file names without extension: no class in it; year and class; a rejected
\* first candidate and an admissible trailing segment; a rejected trailing
\* segment only; letters and a four-digit code
FileNames ==
    { PlainName,
      <<"2", "0", "2", "2", "jib", "jis", "suan", "jiq", "1", "ban">> \o ChengJi \o <<"dan">>,
      <<"2", "2", "jib">> \o ChengJi \o <<"1", "ban", "_", "ruan", "jian">>,
      <<"a", "b", "c", "_">> \o ChengJi,
      <<"ruan", "jian", "2", "3", "0", "1", "_">> \o ChengJi }

\* where the banner stands: nowhere, above the header in column 0, above the
\* header in column 5, below the data in column 0
BannerPlaces == {"none", "top", "far", "bottom"}

\* one group with or without a class column, a banner or none
ClassSheets ==
    {Sheet(n, Grid(0, (IF b = "top" THEN <<BannerRow(0)>>
                       ELSE IF b = "far" THEN <<BannerRow(BannerScanCols)>> ELSE <<>>)
                      \o <<HeaderCells(t), DataCells(t, 1, NormalScores)>>
                      \o (IF b = "bottom" THEN <<BannerRow(0)>> ELSE <<>>))) :
        n \in {Sheet1, MusicSheet, ReportSheet},
        b \in BannerPlaces,
        t \in {<<HClass, HId, HName, HRegular, HFinal, HTotal>>,
               <<HId, HName, HRegular, HFinal, HTotal>>}}

MaxSheets == 3

SheetNames == {Sheet1, <<"A">>, <<"S", "h", "e", "e", "t", "1", "0">>,
               <<"s", "h", "e", "e", "t", "1">>}

\* workbooks of one to MaxSheets sheets with distinct names, the same
\* complete grid on each
NameBooks ==
    {Book([k \in 1..Len(ns) |->
              Sheet(ns[k], Grid(0, <<HeaderCells(<<HId, HName, HRegular, HFinal, HTotal>>),
                                     DataCells(<<HId, HName, HRegular, HFinal, HTotal>>, 1,
                                               NormalScores)>>))]) :
        ns \in {q \in SeqsUpTo(SheetNames, MaxSheets) :
                  q # <<>> /\ \A a \in 1..Len(q) : \A b \in 1..Len(q) : a # b => q[a] # q[b]}}

\* workbooks of three sheets, each complete, without total column or without
\* header row; the ids differ from sheet to sheet
TripleGrids(k) ==
    { Grid(0, <<HeaderCells(t), DataCells(t, k, NormalScores)>>) :
        t \in {<<HId, HName, HRegular, HFinal, HTotal>>, <<HId, HName, HRegular, HFinal>>,
               <<HSeq, HNote>>} }

TripleBooks ==
    {Book(<<Sheet(<<"A">>, d1), Sheet(<<"B">>, d2), Sheet(<<"C">>, d3)>>) :
        d1 \in TripleGrids(1), d2 \in TripleGrids(2), d3 \in TripleGrids(3)}

Books ==
    NameBooks \cup TripleBooks \cup
    {Book(<<s>>) : s \in WideSheets \cup StackedSheets \cup RowSheets \cup TotalSheets}
    \cup {[filename |-> f, sheets |-> <<s>>] : f \in FileNames, s \in ClassSheets}
    \cup {Book(<<Sheet(n1, d1), Sheet(<<"B">>, d2)>>) :
            n1 \in {Sheet1, <<"A">>}, d1 \in PairSheets, d2 \in PairSheets}

\* self._report_progress(message, percent): the event the callback receives
Report(stage, percent) == [stage |-> stage, percent |-> percent]

\* processed_sheets: the sheets that reached the end of the loop body so far
processed_sheets(log) == Len(SelectSeq(log, LAMBDA e : e.stage = "sheet"))

\* the event whose percentage is not scaled by the number of sheets
sheet_progress_unscaled(log, r, total_sheets) ==
    IF r.raised \/ r.header_row = -1 \/ r.col_groups = <<>> THEN log
    ELSE Append(log, Report("sheet", 5 + 25 * (processed_sheets(log) + 1)))

\* the event at the end of the loop body, none for a sheet left by continue
\* or by an exception
sheet_progress(log, r, total_sheets) ==
    IF r.raised \/ r.header_row = -1 \/ r.col_groups = <<>> THEN log
    ELSE Append(log, Report("sheet", 5 + (25 * (processed_sheets(log) + 1))
                                            \div Max2(total_sheets, 1)))

\* the state once the workbook is open: the first event has been reported
Init ==
    /\ pc = "extracting"
    /\ xl \in Books
    /\ sheet_i = 0
    /\ all_students = <<>>
    /\ warnings = <<>>
    /\ header_row = -1
    /\ col_groups = <<>>
    /\ current_sheet = <<>>
    /\ progress = <<Report("read", 5)>>
    /\ error = PyNone /\ result = PyNone /\ save_attempts = 0
    /\ IdleId /\ IdleConfig /\ IdleBook /\ IdleApp

\* one iteration of the loop over sheets_to_process
ProcessSheet ==
    /\ pc = "extracting"
    /\ sheet_i < Len(sheets_to_process(xl))
    /\ \E r \in {process_sheet(sheets_to_process(xl)[sheet_i + 1], xl.filename, warnings)} :
           /\ warnings' = r.warnings
           /\ header_row' = r.header_row
           /\ col_groups' = r.col_groups
           /\ all_students' = all_students \o r.records
           /\ pc' = IF r.raised THEN "KeyError" ELSE "extracting"
           /\ progress' = sheet_progress(progress, r, Len(sheets_to_process(xl)))
    /\ current_sheet' = sheets_to_process(xl)[sheet_i + 1].name
    /\ sheet_i' = sheet_i + 1
    /\ UNCHANGED <<app, ui, worker, files, sid, sid_ok, config, validation, xl, students, ws_calc, ws_stat,
                   error, result, save_attempts>>

\* return all_students, warnings
ReturnStudents ==
    /\ pc = "extracting"
    /\ sheet_i = Len(sheets_to_process(xl))
    /\ pc' = "extracted"
    /\ UNCHANGED <<app, ui, worker, files, sid, sid_ok, config, validation, xl, sheet_i, all_students,
                   warnings, header_row, col_groups, students, ws_calc, ws_stat,
                   current_sheet, progress, error, result, save_attempts>>

Next == ProcessSheet \/ ReturnStudents

Spec == Init /\ [][Next]_vars

-----------------------------------------------------------------------------
(* Claims about extract_students_from_grades *)

\* the sheet handled last, its header row texts and candidate mappings
LastSheet == sheets_to_process(xl)[sheet_i]
LastHeaderTexts == row_values(LastSheet.df, header_row)
WarningsOf(sheet, kinds) ==
    SelectSeq(warnings, LAMBDA w : w.sheet = sheet /\ w.kind \in kinds)

IsNumber(val) == val.t = "num"

\* C1: every record is either fully numeric with status None, or has the
\* three scores None and a status; no record has an empty status together
\* with a missing (NaN) score, nor a status together with a numeric score.
C1_NumericOrStatus ==
    \A k \in 1..Len(all_students) :
        LET r == all_students[k]
        IN  \/ /\ IsNumber(r.regular_score) /\ IsNumber(r.final_score)
               /\ IsNumber(r.total_score)
               /\ r.status = PyNone
            \/ /\ r.regular_score = PyNone /\ r.final_score = PyNone
               /\ r.total_score = PyNone
               /\ r.status # PyNone

\* C2: every mapping appended to col_groups holds all five required roles,
\* and no lookup of a role that a mapping lacks happens while rows are read.
C2_AcceptedMappingsComplete ==
    /\ \A k \in 1..Len(col_groups) :
          {"student_id", "name", "final_score", "regular_score", "total_score"}
              \subseteq DOMAIN col_groups[k]
    /\ pc # "KeyError"

\* a row with two id columns gave one accepted and one rejected group, and
\* the accepted one produced a record
C2_Witness ==
    /\ sheet_i = 1
    /\ header_row = 0
    /\ Len(student_id_cols(LastHeaderTexts)) = 2
    /\ Len(col_groups) = 1
    /\ Len(all_students) = 1

\* rows among the first 50 that hold both tokens
QualifyingRows(df) ==
    {i \in 0..(NRows(df) - 1) :
        /\ i < 50
        /\ \E j \in 0..(NCols(df) - 1) : Contains(cell_text(Cell(df, i, j)), XueHao)
        /\ \E j \in 0..(NCols(df) - 1) : Contains(cell_text(Cell(df, i, j)), XingMing)}

\* text of the id cell of row i in the group seeded by m
IdText(df, i, m) ==
    IF notna(Cell(df, i, m.student_id)) THEN str(Cell(df, i, m.student_id)) ELSE <<>>

IncompleteGroups ==
    SelectSeq(candidate_mappings(LastHeaderTexts), LAMBDA m : missing_cols(m) # <<>>)

\* C9 as stated: every id-token column whose group lacks a role gets a
\* warning naming exactly its missing labels, not only the first group.
C9_EveryIncompleteGroupWarned ==
    (sheet_i >= 1 /\ header_row # -1) =>
        WarningsOf(LastSheet.name, {"missing_columns"})
            = [k \in 1..Len(IncompleteGroups) |->
                  missing_warning(LastSheet.name, IncompleteGroups[k])]

\* C9 (amended): every group lacking a role is discarded; a warning naming
\* exactly the missing labels is appended when, and only when, the group is
\* the first id-token column of the row; an incomplete later group is
\* discarded without a warning of its own.
C9_FirstIncompleteGroupWarned ==
    (sheet_i >= 1 /\ header_row # -1) =>
        LET maps == candidate_mappings(LastHeaderTexts)
        IN  /\ col_groups = SelectSeq(maps, LAMBDA m : missing_cols(m) = <<>>)
            /\ WarningsOf(LastSheet.name, {"missing_columns"})
                  = IF missing_cols(maps[1]) # <<>>
                    THEN <<missing_warning(LastSheet.name, maps[1])>>
                    ELSE <<>>

\* the first group was incomplete and warned about, a later group was
\* accepted
C9_Witness ==
    /\ sheet_i = 1 /\ header_row # -1
    /\ Len(candidate_mappings(LastHeaderTexts)) = 2
    /\ missing_cols(candidate_mappings(LastHeaderTexts)[1]) = <<"regular_score">>
    /\ Len(col_groups) = 1
    /\ WarningsOf(LastSheet.name, {"missing_columns"})
          = <<Warning(LastSheet.name, "missing_columns", <<PingShi \o ChengJi>>)>>

\* C10: with two or more id-token columns, each group's roles lie in its
\* window [nearest class column left of the id column or 0, next class column
\* right of it or row end), and no column is the name, final, regular or
\* total column of two different accepted mappings.
C10_NoSharedColumns ==
    (sheet_i >= 1 /\ header_row # -1) =>
        LET roles == {"name", "final_score", "regular_score", "total_score"}
            ccs == class_cols(LastHeaderTexts)
        IN  /\ \A k \in 1..Len(col_groups) : \A r \in roles :
                  /\ col_groups[k][r] >= group_start(ccs, col_groups[k].student_id)
                  /\ col_groups[k][r] < group_end(ccs, col_groups[k].student_id, LastHeaderTexts)
            /\ \A k1 \in 1..Len(col_groups) : \A k2 \in 1..Len(col_groups) :
                  k1 # k2 => \A r1 \in roles : \A r2 \in roles :
                      col_groups[k1][r1] # col_groups[k2][r2]

\* the window of accepted group m in the last header row
WindowOf(m) ==
    group_start(class_cols(LastHeaderTexts), m.student_id)
        .. (group_end(class_cols(LastHeaderTexts), m.student_id, LastHeaderTexts) - 1)

\* the header text of column j with line breaks removed
CleanHeader(j) == clean(strip(LastHeaderTexts[j + 1]))

HoldsSpecific(txt) ==
    \/ Contains(txt, <<"zong", "cheng", "ji">>)
    \/ Contains(txt, <<"zong", "pingj", "cheng", "ji">>)
    \/ Contains(txt, <<"zong", "fen">>)

IsGeneric(txt) == txt = <<"cheng", "ji">> \/ txt = <<"zong", "pingj">>

ScoreCellsOf(df, i, m) ==
    <<Cell(df, i, m.final_score), Cell(df, i, m.regular_score), Cell(df, i, m.total_score)>>

HoldsKeyword(val) ==
    /\ notna(val)
    /\ \E kw \in {<<"que", "kao">>, <<"huan", "kao">>, <<"zuo", "bi">>, <<"qu", "xiao">>,
                   <<"mian", "xiu">>, <<"kuang", "kao">>} : Contains(strip(str(val)), kw)

Blank(val) == val.t \in {"None", "nan"} \/ strip(str(val)) = <<>>

\* the status the row's score cells call for
ExpectedStatus(cells) ==
    IF \E c \in 1..3 : HoldsKeyword(cells[c])
    THEN Str(strip(str(cells[CHOOSE c \in 1..3 :
                                /\ HoldsKeyword(cells[c])
                                /\ \A o \in 1..(c - 1) : ~HoldsKeyword(cells[o])])))
    ELSE IF \A c \in 1..3 : Blank(cells[c]) THEN Str(<<"cheng", "ji", "wei", "kong">>)
    ELSE IF \A c \in 1..3 : to_float(cells[c]).ok THEN PyNone
    ELSE Str(<<"cheng", "ji", "yi", "chang">>)

FixedStatuses ==
    {<<"que", "kao">>, <<"huan", "kao">>, <<"zuo", "bi">>, <<"qu", "xiao">>,
     <<"mian", "xiu">>, <<"kuang", "kao">>,
     <<"cheng", "ji", "wei", "kong">>, <<"cheng", "ji", "yi", "chang">>}

\* C12 as stated: the status of every special record is one of the six
\* keywords, the score-blank literal or the score-malformed literal, and never
\* any other string, even when the cell holds text around the keyword.
C12_StatusIsFixedValue ==
    \A n \in 1..Len(all_students) :
        all_students[n].status # PyNone => all_students[n].status.s \in FixedStatuses

\* C12 (amended): the status of a special record is the whole stripped text of
\* the first score cell (final, regular, total) that contains a keyword, so
\* text around the keyword is kept; it is the score-blank literal when the
\* three cells are empty, and the score-malformed literal when no cell holds a
\* keyword and a cell fails numeric conversion.
C12_StatusIsCellText ==
    (sheet_i = 1 /\ pc # "KeyError") =>
        \A n \in 1..Len(all_students) :
            \E k \in 1..Len(col_groups) : \E i \in (header_row + 1)..(NRows(LastSheet.df) - 1) :
                /\ all_students[n].student_id = IdText(LastSheet.df, i, col_groups[k])
                /\ all_students[n].status
                      = ExpectedStatus(ScoreCellsOf(LastSheet.df, i, col_groups[k]))

\* one row gave a record whose status is a keyword with text around it, and
\* the same sheet also gave a normal record
C12_Witness ==
    /\ sheet_i = 1
    /\ \E n \in 1..Len(all_students) :
          all_students[n].status = Str(<<"que", "kao", "(", "a", ")">>)
    /\ \E n \in 1..Len(all_students) : all_students[n].status = PyNone

\* the (row, group) pairs of the last sheet whose id cell passes the validity
\* rule, numbered in the order the loops visit them: row by row, and group by
\* group within a row
ValidPairKeys ==
    {key \in 0..(NRows(LastSheet.df) * Len(col_groups)) :
        /\ key \div Len(col_groups) > header_row
        /\ key \div Len(col_groups) < NRows(LastSheet.df)
        /\ is_valid_student_id(IdText(LastSheet.df, key \div Len(col_groups),
                                       col_groups[(key % Len(col_groups)) + 1]))}

\* C13: on a sheet with an accepted mapping, every row below the header row
\* and every accepted group whose id cell passes the validity rule yields
\* exactly one record, whatever the score cells hold; a row whose id cell
\* fails the rule yields no record and no warning; records come in the order
\* the rows and groups are visited.
C13_OneRecordPerValidId ==
    (sheet_i = 1 /\ header_row # -1 /\ col_groups # <<>>) =>
        /\ pc # "KeyError"
        /\ Len(all_students) = Cardinality(ValidPairKeys)
        /\ \A key \in ValidPairKeys :
              all_students[Cardinality({o \in ValidPairKeys : o < key}) + 1].student_id
                  = IdText(LastSheet.df, key \div Len(col_groups),
                           col_groups[(key % Len(col_groups)) + 1])
        /\ \A w \in 1..Len(warnings) : warnings[w].kind \in {"no_class_info", "missing_columns"}
        /\ Len(WarningsOf(LastSheet.name, {"no_class_info"})) <= 1
        /\ Len(WarningsOf(LastSheet.name, {"missing_columns"})) <= 1

\* a sheet of two data rows gave two records, one of them for a row whose
\* scores failed numeric conversion
C13_Witness ==
    /\ sheet_i = 1 /\ header_row = 0 /\ Len(col_groups) = 1
    /\ NRows(LastSheet.df) = 3
    /\ Len(all_students) = 2
    /\ all_students[1].status = Str(<<"cheng", "ji", "yi", "chang">>)

\* the label and the class-header columns of the last sheet
LastLabel == resolve_class_name(LastSheet.df, LastSheet.name, xl.filename)
LastClassHeaders == header_class_cols(LastSheet.df)

\* the text of the class-header column nearest to the id column of m, row i
NearestClassText(i, m) ==
    cell_text(Cell(LastSheet.df, i, closest_class_col(LastClassHeaders, m.student_id)))

\* every record of the last sheet has the class that choice(i, m) gives for
\* the row and group it came from
ClassesFollow(choice(_, _)) ==
    \A n \in 1..Len(all_students) :
        \E k \in 1..Len(col_groups) : \E i \in (header_row + 1)..(NRows(LastSheet.df) - 1) :
            /\ all_students[n].student_id = IdText(LastSheet.df, i, col_groups[k])
            /\ all_students[n].class = choice(i, col_groups[k])

\* C14 as stated: the class of a record is (1) the value in the group's own
\* class column, else (2) the value in the nearest class-header column whenever
\* the sheet has class-header columns, else (3) the sheet/file-derived label,
\* else (4) the empty string; the per-row column is preferred to the label.
C14_ColumnBeforeLabel ==
    (sheet_i = 1 /\ pc # "KeyError") =>
        ClassesFollow(LAMBDA i, m :
            IF "class_col" \in DOMAIN m THEN cell_text(Cell(LastSheet.df, i, m.class_col))
            ELSE IF LastClassHeaders # <<>> THEN NearestClassText(i, m)
            ELSE LastLabel)

\* C14 (amended): the class of a record is (1) the value in the group's own
\* class column, else (2) the sheet/file-derived label when one was found,
\* else (3) the value in the nearest class-header column when the sheet has
\* class-header columns, else (4) the empty string.
C14_LabelBeforeColumn ==
    (sheet_i = 1 /\ pc # "KeyError") =>
        ClassesFollow(LAMBDA i, m :
            IF "class_col" \in DOMAIN m THEN cell_text(Cell(LastSheet.df, i, m.class_col))
            ELSE IF LastLabel # <<>> THEN LastLabel
            ELSE IF LastClassHeaders # <<>> THEN NearestClassText(i, m)
            ELSE <<>>)

\* a sheet with a label and a class-header column gave a record from a group
\* without a class column of its own, and the record carries the label
C14_Witness ==
    /\ sheet_i = 1 /\ Len(col_groups) >= 1 /\ Len(all_students) >= 1
    /\ LastLabel # <<>>
    /\ LastClassHeaders # <<>>
    /\ "class_col" \notin DOMAIN col_groups[1]
    /\ all_students[1].class = LastLabel
    /\ all_students[1].class # NearestClassText(header_row + 1, col_groups[1])

\* the candidate of file-name pattern k, and whether it is admissible
FileCandidate(k) == strip(re_search(file_patterns[k], xl.filename))
FileOk(k) ==
    FileCandidate(k) # <<>> /\ ~ContainsAny(FileCandidate(k), file_exclude_keywords)

\* the label the three sources give when consulted in order
ExpectedLabel ==
    IF banner_class(LastSheet.df) # <<>> THEN banner_class(LastSheet.df)
    ELSE IF sheet_class(LastSheet.name) # <<>> THEN sheet_class(LastSheet.name)
    ELSE IF \E k \in 1..Len(file_patterns) : FileOk(k)
    THEN FileCandidate(CHOOSE k \in 1..Len(file_patterns) :
                          FileOk(k) /\ \A o \in 1..(k - 1) : ~FileOk(o))
    ELSE <<>>

\* the records of groups without a class column carry the label when there is
\* one, and a sheet with a qualifying row is processed whatever the label
LabelUsed ==
    /\ ExpectedLabel # <<>> =>
          \A n \in 1..Len(all_students) :
              (\A k \in 1..Len(col_groups) : "class_col" \notin DOMAIN col_groups[k])
                  => all_students[n].class = ExpectedLabel
    /\ QualifyingRows(LastSheet.df) # {} => header_row # -1

\* C15 as stated: the label is the first of grid banner, sheet-name segment
\* and admissible file-name candidate; when all three fail the label is empty,
\* a warning for the sheet is recorded and the sheet is still processed.
C15_WarnedWheneverUnlabelled ==
    (sheet_i = 1 /\ pc # "KeyError") =>
        /\ LabelUsed
        /\ ExpectedLabel = <<>>
              <=> WarningsOf(LastSheet.name, {"no_class_info"})
                     = <<Warning(LastSheet.name, "no_class_info", <<>>)>>
        /\ ExpectedLabel # <<>> => WarningsOf(LastSheet.name, {"no_class_info"}) = <<>>

\* C15 (amended): the label is the first of grid banner (first five columns),
\* sheet-name segment and admissible file-name candidate; when all three fail
\* the label is empty and the sheet is still processed; the warning is
\* recorded only if, in addition, the header row has no class column.
C15_WarnedWhenNoClassAtAll ==
    (sheet_i = 1 /\ pc # "KeyError") =>
        /\ LabelUsed
        /\ (ExpectedLabel = <<>> /\ LastClassHeaders = <<>>)
              <=> WarningsOf(LastSheet.name, {"no_class_info"})
                     = <<Warning(LastSheet.name, "no_class_info", <<>>)>>
        /\ (ExpectedLabel # <<>> \/ LastClassHeaders # <<>>)
              => WarningsOf(LastSheet.name, {"no_class_info"}) = <<>>

\* grid and sheet name gave nothing, the first file-name candidate held an
\* excluded keyword, and the record carries the candidate of a later pattern
C15_Witness ==
    /\ sheet_i = 1 /\ Len(all_students) = 1
    /\ banner_class(LastSheet.df) = <<>> /\ sheet_class(LastSheet.name) = <<>>
    /\ FileCandidate(1) # <<>> /\ ~FileOk(1)
    /\ all_students[1].class = <<"ruan", "jian">>
    /\ warnings = <<>>

\* the names of the sheets the rule selects, in workbook order
ExpectedSheets ==
    IF Len(xl.sheets) = 1 THEN <<xl.sheets[1].name>>
    ELSE [k \in 1..Len(SelectSeq(xl.sheets, LAMBDA sh : sh.name # <<"S", "h", "e", "e", "t", "1">>)) |->
             SelectSeq(xl.sheets, LAMBDA sh : sh.name # <<"S", "h", "e", "e", "t", "1">>)[k].name]

\* C16: the sheets handled are the single sheet of a one-sheet workbook, even
\* when it is named 'Sheet1', and otherwise every sheet not named exactly
\* 'Sheet1', in workbook order; no other sheet is skipped by this rule.
C16_SheetsProcessed ==
    pc \in {"extracting", "extracted"} =>
        /\ sheet_i <= Len(ExpectedSheets)
        /\ sheet_i >= 1 => current_sheet = ExpectedSheets[sheet_i]
        /\ pc = "extracted" => sheet_i = Len(ExpectedSheets)

\* a workbook of three sheets with 'Sheet1' in the middle: the first and the
\* third sheet were handled, and both gave a record
C16_Witness ==
    /\ pc = "extracted"
    /\ Len(xl.sheets) = 3
    /\ xl.sheets[2].name = <<"S", "h", "e", "e", "t", "1">>
    /\ sheet_i = 2
    /\ current_sheet = xl.sheets[3].name
    /\ Len(all_students) = 2

\* the sheets the loop has handled so far
Handled == SubSeq(sheets_to_process(xl), 1, sheet_i)

\* the iteration left the sheet by one of the two "continue" statements
Skipped(r) == r.header_row = -1 \/ r.col_groups = <<>>

\* the sheet handled on its own would be left by "continue"
BadSheet(sh) == Skipped(process_sheet(sh, xl.filename, <<>>))

GoodSheet(sh) == ~BadSheet(sh)

\* the loop of extract_students_from_grades run over the sheets shs
RECURSIVE extract_students(_, _, _, _)
RECURSIVE extract_next(_, _, _, _)
extract_students(shs, filename_no_ext, ws, acc) ==
    IF shs = <<>> THEN [students |-> acc, warnings |-> ws]
    ELSE extract_next(shs, filename_no_ext, process_sheet(Head(shs), filename_no_ext, ws), acc)

extract_next(shs, filename_no_ext, r, acc) ==
    extract_students(Tail(shs), filename_no_ext, r.warnings, acc \o r.records)

\* the position in the handled sheets of the sheet a warning names
SheetIndex(w) == CHOOSE k \in 1..Len(Handled) : Handled[k].name = w.sheet

WithoutBad(run) ==
    /\ all_students = run.students
    /\ SelectSeq(warnings, LAMBDA w : \E k \in 1..Len(Handled) :
                     Handled[k].name = w.sheet /\ GoodSheet(Handled[k]))
         = run.warnings

\* C21: a sheet without header row or without complete column group adds at
\* least one warning and no record and does not end the run; the records
\* (and the warnings about the other sheets) are those of the run over the
\* other sheets alone, and the warnings are in sheet order.
C21_BadSheetSkippedOnly ==
    /\ pc \in {"extracting", "extracted"}
    /\ \A k \in 1..Len(Handled) :
           BadSheet(Handled[k]) =>
               \E n \in 1..Len(warnings) :
                   /\ warnings[n].sheet = Handled[k].name
                   /\ warnings[n].kind \in {"no_header_row", "missing_columns",
                                            "no_complete_group"}
    /\ WithoutBad(extract_students(SelectSeq(Handled, GoodSheet), xl.filename, <<>>, <<>>))
    /\ \A a \in 1..Len(warnings) : \A b \in 1..Len(warnings) :
           a < b => SheetIndex(warnings[a]) <= SheetIndex(warnings[b])

\* three sheets were handled: the first has no header row, the second lacks
\* the total column, the third is complete and gave its record after two
\* warnings
C21_Witness ==
    /\ pc = "extracted"
    /\ sheet_i = 3
    /\ header_row = 0 /\ col_groups # <<>>
    /\ BadSheet(Handled[1]) /\ BadSheet(Handled[2])
    /\ Len(all_students) = 1
    /\ Str(all_students[1].student_id) = Cell(Handled[3].df, 1, 0)
    /\ Len(warnings) >= 2
    /\ warnings[1].sheet = <<"A">> /\ warnings[1].kind \in {"no_class_info", "no_header_row"}
    /\ warnings[Len(warnings)].sheet \in {<<"B">>, <<"C">>}

-----------------------------------------------------------------------------
(* Workbook cells and the formulas written into them.  A formula string is
   kept as its syntax tree; the comment at each place gives the f-string of
   the source it stands for. *)

\* a float held in tenths, e.g. achievement_expectation 0.6 = Tenths(6)
Tenths(n) == [t |-> "tenths", s |-> <<>>, v |-> n]

Formula(f) == [t |-> "formula", f |-> f]

\* a cell never touched, a cell given only a border, and cells given a value
\* (font, alignment and border) without or with a number format
EmptyCell == [value |-> PyNone, border |-> FALSE, number_format |-> "General"]
BorderOnly == [value |-> PyNone, border |-> TRUE, number_format |-> "General"]
Plain(val) == [value |-> val, border |-> TRUE, number_format |-> "General"]
TwoDecimals(val) == [value |-> val, border |-> TRUE, number_format |-> "0.00"]
Percent(val) == [value |-> val, border |-> TRUE, number_format |-> "0.00%"]

\* openpyxl.utils.get_column_letter / column_index_from_string for A..AG
ColumnLetters ==
    <<"A", "B", "C", "D", "E", "F", "G", "H", "I", "J", "K", "L", "M", "N", "O",
      "P", "Q", "R", "S", "T", "U", "V", "W", "X", "Y", "Z", "AA", "AB", "AC", "AD",
      "AE", "AF", "AG", "AH", "AI", "AJ", "AK", "AL", "AM", "AN", "AO", "AP", "AQ",
      "AR", "AS", "AT", "AU", "AV">>
get_column_letter(c) == ColumnLetters[c]
column_index_from_string(l) == CHOOSE c \in 1..Len(ColumnLetters) : ColumnLetters[c] = l

CalcSheet == "ke cheng mu biao da cheng du ji suan"
StatSheet == "da cheng du tong ji"

\* syntax trees: 100, H3, $C$1, a*b, ROUND(a,0), W$3:W$5 or 'sheet'!W3:W5,
\* AVERAGE(r), COUNT(r), COUNTIF(r,"c"), COUNTIFS(r1,"c1",r2,"c2")
N(n) == [k |-> "num", n |-> n]
Ref(col, row) == [k |-> "ref", col |-> col, row |-> row, abs |-> FALSE]
AbsRef(col, row) == [k |-> "ref", col |-> col, row |-> row, abs |-> TRUE]
Op(o, a, b) == [k |-> "op", o |-> o, a |-> a, b |-> b]
ROUND0(a) == [k |-> "ROUND", a |-> a]
Rng(sheet, col, r1, r2, abs_rows) ==
    [k |-> "range", sheet |-> sheet, col |-> col, r1 |-> r1, r2 |-> r2, abs_rows |-> abs_rows]
AVERAGE(r) == [k |-> "AVERAGE", r |-> r]
COUNT(r) == [k |-> "COUNT", r |-> r]
Crit(cmp, tenths) == [cmp |-> cmp, tenths |-> tenths]
COUNTIF(r, c) == [k |-> "COUNTIF", pairs |-> <<[r |-> r, c |-> c]>>]
COUNTIFS(r1, c1, r2, c2) ==
    [k |-> "COUNTIFS", pairs |-> <<[r |-> r1, c |-> c1], [r |-> r2, c |-> c2]>>]

-----------------------------------------------------------------------------
(* What the spreadsheet program computes from the formulas: exact rationals,
   blanks, texts and errors *)

RECURSIVE GCD(_, _)
GCD(a, b) == IF b = 0 THEN a ELSE GCD(b, a % b)

\* the rational n/d in lowest terms with d > 0
Q(n, d) ==
    LET g == GCD(Abs(n), Abs(d))
        sg == IF d < 0 THEN -1 ELSE 1
    IN  [t |-> "q", n |-> (sg * n) \div g, d |-> (sg * d) \div g]
XlBlank == [t |-> "blank", n |-> 0, d |-> 1]
XlText == [t |-> "text", n |-> 0, d |-> 1]
XlError == [t |-> "error", n |-> 0, d |-> 1]

IsNumeric(x) == x.t = "q"

\* operands of + * /: a blank counts as 0, a text or an error gives an error
Operand(x) == IF x.t = "blank" THEN Q(0, 1) ELSE x

Arith(o, x0, y0) ==
    LET x == Operand(x0)
        y == Operand(y0)
    IN  IF ~IsNumeric(x) \/ ~IsNumeric(y) THEN XlError
        ELSE CASE o = "+" -> Q(x.n * y.d + y.n * x.d, x.d * y.d)
               [] o = "*" -> Q(x.n * y.n, x.d * y.d)
               [] o = "/" -> IF y.n = 0 THEN XlError ELSE Q(x.n * y.d, x.d * y.n)

\* ROUND(x, 0): to the nearest integer, halves away from zero
Round(x0) ==
    LET x == Operand(x0)
    IN  IF ~IsNumeric(x) THEN XlError
        ELSE LET m == (2 * Abs(x.n) + x.d) \div (2 * x.d)
             IN  Q(IF x.n < 0 THEN -m ELSE m, 1)

\* a COUNTIF criterion such as ">=0.6" holds of numbers only
Satisfies(x, c) ==
    /\ IsNumeric(x)
    /\ CASE c.cmp = ">"  -> x.n * 10 >  c.tenths * x.d
         [] c.cmp = ">=" -> x.n * 10 >= c.tenths * x.d
         [] c.cmp = "<"  -> x.n * 10 <  c.tenths * x.d
         [] c.cmp = "<=" -> x.n * 10 <= c.tenths * x.d

RECURSIVE SumQ(_, _)
SumQ(xs, k) == IF k = 0 THEN Q(0, 1) ELSE Arith("+", SumQ(xs, k - 1), xs[k])

\* the value shown for formula f standing in sheet `here` of workbook wb
RECURSIVE Eval(_, _, _)
Eval(wb, here, f) ==
    LET RangeValues(r) ==
            LET sh == IF r.sheet = "" THEN here ELSE r.sheet
            IN  [i \in 1..(r.r2 - r.r1 + 1) |-> Eval(wb, sh, Ref(r.col, r.r1 + i - 1))]
        Numbers(xs) == SelectSeq(xs, IsNumeric)
    IN  CASE f.k = "num" -> Q(f.n, 1)
          [] f.k = "ref" ->
                LET val == wb[here][<<f.row, column_index_from_string(f.col)>>].value
                IN  CASE val.t = "formula" -> Eval(wb, here, val.f)
                      [] val.t = "num" -> Q(val.v, 1)
                      [] val.t = "tenths" -> Q(val.v, 10)
                      [] val.t = "str" -> XlText
                      [] OTHER -> XlBlank
          [] f.k = "op" -> Arith(f.o, Eval(wb, here, f.a), Eval(wb, here, f.b))
          [] f.k = "ROUND" -> Round(Eval(wb, here, f.a))
          [] f.k = "COUNT" -> Q(Len(Numbers(RangeValues(f.r))), 1)
          [] f.k = "AVERAGE" ->
                LET xs == RangeValues(f.r)
                    ns == Numbers(xs)
                IN  IF (\E i \in 1..Len(xs) : xs[i].t = "error") \/ ns = <<>>
                    THEN XlError
                    ELSE Arith("/", SumQ(ns, Len(ns)), Q(Len(ns), 1))
          [] f.k \in {"COUNTIF", "COUNTIFS"} ->
                LET vals == [p \in 1..Len(f.pairs) |-> RangeValues(f.pairs[p].r)]
                    rows == 1..Len(vals[1])
                IN  Q(Cardinality({i \in rows : \A p \in 1..Len(f.pairs) :
                                      Satisfies(vals[p][i], f.pairs[p].c)}), 1)

-----------------------------------------------------------------------------
(* create_workbook: the two sheets it lays out *)

data_start_row == 3
LastColumn == 33

MuBiao == <<"mu", "biao">>
DaChengDu == <<"da", "cheng", "du">>
RenShu == <<"ren", "shu">>
ZhanBi == <<"zhan", "bi">>

\* record['status'] is not None
is_special_never(student) == FALSE

is_special(student) == student.status # PyNone

\* row 1 and row 2 of the calculation sheet
setup_calc_sheet_headers(c, row, col) ==
    LET row1 == (3 :> Num(c.ratio_1)) @@ (4 :> Num(c.ratio_2)) @@ (5 :> Num(c.ratio_3))
                @@ (6 :> Str(ChengJi)) @@ (11 :> Str(PingShi \o ChengJi))
                @@ (13 :> Num(c.regular_score_ratio)) @@ (15 :> Str(QiMo \o ChengJi))
                @@ (17 :> Num(c.final_score_ratio)) @@ (19 :> Str(<<"zong">> \o ChengJi))
                @@ (23 :> Str(DaChengDu))
                @@ (26 :> Str(DaChengDu \o <<"ping", "jun", "zhi">>))
                @@ (29 :> Str(DaChengDu \o <<"qi", "wang", "zhi">>))
                @@ (32 :> Str(<<"suan", "shu", "ping", "jun", "zhi">>))
                @@ (33 :> Str(<<"zong">> \o DaChengDu \o <<"ping", "jun", "zhi">>))
        row2 == <<BanJi, XueHao, MuBiao \o <<"yi">>, MuBiao \o <<"er">>, MuBiao \o <<"san">>,
                  PingShi, QiMo, <<"zong", "fen">>, <<"xu", "hao">>, XingMing,
                  MuBiao \o <<"1">>, MuBiao \o <<"2">>, MuBiao \o <<"3">>, PingShi,
                  MuBiao \o <<"1">>, MuBiao \o <<"2">>, MuBiao \o <<"3">>, QiMo,
                  MuBiao \o <<"1">>, MuBiao \o <<"2">>, MuBiao \o <<"3">>, <<"zong", "fen">>,
                  MuBiao \o <<"1">>, MuBiao \o <<"2">>, MuBiao \o <<"3">>,
                  MuBiao \o <<"1">>, MuBiao \o <<"2">>, MuBiao \o <<"3">>,
                  MuBiao \o <<"1">>, MuBiao \o <<"2">>, MuBiao \o <<"3">>,
                  <<"zong">> \o DaChengDu>>
    IN  IF row = 1
        THEN IF col \in DOMAIN row1 THEN Plain(row1[col])
             ELSE IF col \in {1, 2, 9, 10} THEN BorderOnly ELSE EmptyCell
        ELSE IF col <= Len(row2) THEN Plain(Str(row2[col])) ELSE BorderOnly

\* the weight cell of target column 3, 4, 5 resp. K..M / O..Q offsets 0, 1, 2
WeightRef(k) == AbsRef(get_column_letter(3 + k), 1)

\* =ROUND(H{row}*$C$1/100,0)
target_share(row, k) ==
    ROUND0(Op("/", Op("*", Ref("H", row), WeightRef(k)), N(100)))

\* the rate that rounds the score itself: =(ROUND(F{row},0)/$C$1)*100
attainment_rate_unweighted(src, row, k) ==
    Op("*", Op("/", ROUND0(Ref(src, row)), WeightRef(k)), N(100))

\* =(ROUND(F{row}*$C$1/100,0)/$C$1)*100
attainment_rate(src, row, k) ==
    Op("*", Op("/", ROUND0(Op("/", Op("*", Ref(src, row), WeightRef(k)), N(100))),
               WeightRef(k)),
       N(100))

\* =K{row}*$M$1/100+O{row}*$Q$1/100
weighted_rate(reg, fin, row) ==
    Op("+", Op("/", Op("*", Ref(reg, row), AbsRef("M", 1)), N(100)),
            Op("/", Op("*", Ref(fin, row), AbsRef("Q", 1)), N(100)))

\* the list `formulas` of a normal row: columns 11 (K) .. 25 (Y)
formulas(row) ==
    (11 :> attainment_rate("F", row, 0)) @@ (12 :> attainment_rate("F", row, 1))
    @@ (13 :> attainment_rate("F", row, 2)) @@ (14 :> Ref("F", row))
    @@ (15 :> attainment_rate("G", row, 0)) @@ (16 :> attainment_rate("G", row, 1))
    @@ (17 :> attainment_rate("G", row, 2)) @@ (18 :> Ref("G", row))
    @@ (19 :> weighted_rate("K", "O", row)) @@ (20 :> weighted_rate("L", "P", row))
    @@ (21 :> weighted_rate("M", "Q", row)) @@ (22 :> Ref("H", row))
    @@ (23 :> Op("/", Ref("S", row), N(100))) @@ (24 :> Op("/", Ref("T", row), N(100)))
    @@ (25 :> Op("/", Ref("U", row), N(100)))

\* _fill_student_data: columns A..Y of the row of students[idx]
fill_student_data(student, idx, row, col) ==
    CASE col = 1 -> Plain(Str(student.class))
      [] col = 2 -> Plain(Str(student.student_id))
      [] col = 9 -> Plain(Num(idx + 1))
      [] col = 10 -> Plain(student.name)
      [] OTHER ->
            IF is_special(student)
            THEN IF col = 8 THEN Plain(student.status) ELSE BorderOnly
            ELSE CASE col \in 3..5 -> Plain(Formula(target_share(row, col - 3)))
                   [] col = 6 -> TwoDecimals(student.regular_score)
                   [] col = 7 -> TwoDecimals(student.final_score)
                   [] col = 8 -> TwoDecimals(student.total_score)
                   [] OTHER -> TwoDecimals(Formula(formulas(row)[col]))

\* _fill_achievement_data: columns Z..AG of the row of students[idx]
\* the fill that averages the rows down to the current one
fill_achievement_data_running(c, student, row, col, data_end_row) ==
    CASE col \in {29, 30, 31} -> TwoDecimals(Tenths(c.achievement_expectation))
      [] OTHER ->
            IF is_special(student) THEN BorderOnly
            ELSE CASE col = 26 -> TwoDecimals(Formula(AVERAGE(Rng("", "W", data_start_row, row, TRUE))))
                   [] col = 27 -> TwoDecimals(Formula(AVERAGE(Rng("", "X", data_start_row, row, TRUE))))
                   [] col = 28 -> TwoDecimals(Formula(AVERAGE(Rng("", "Y", data_start_row, row, TRUE))))
                   [] col = 32 -> TwoDecimals(Formula(Op("/", Ref("V", row), N(100))))
                   [] col = 33 -> TwoDecimals(Formula(AVERAGE(Rng("", "AF", data_start_row, row, TRUE))))

\* _fill_achievement_data, columns Z..AG of a student row
fill_achievement_data(c, student, row, col, data_end_row) ==
    CASE col \in {29, 30, 31} -> TwoDecimals(Tenths(c.achievement_expectation))
      [] OTHER ->
            IF is_special(student) THEN BorderOnly
            ELSE CASE col = 26 -> TwoDecimals(Formula(AVERAGE(Rng("", "W", data_start_row, data_end_row, TRUE))))
                   [] col = 27 -> TwoDecimals(Formula(AVERAGE(Rng("", "X", data_start_row, data_end_row, TRUE))))
                   [] col = 28 -> TwoDecimals(Formula(AVERAGE(Rng("", "Y", data_start_row, data_end_row, TRUE))))
                   [] col = 32 -> TwoDecimals(Formula(Op("/", Ref("V", row), N(100))))
                   [] col = 33 -> TwoDecimals(Formula(AVERAGE(Rng("", "AF", data_start_row, data_end_row, TRUE))))

\* _fill_average_row
fill_average_row(col, data_end_row) ==
    CASE col = 1 -> Plain(Str(<<"(", "ping", "jun", "zhi", ")">>))
      [] col = 2 -> BorderOnly
      [] col \in (3..8) \cup (11..25) \cup {32} ->
            TwoDecimals(Formula(AVERAGE(Rng("", get_column_letter(col),
                                            data_start_row, data_end_row, FALSE))))
      [] OTHER -> EmptyCell

\* the cells of the calculation sheet after the four fill steps
calc_cells(c, list) ==
    LET data_end_row == data_start_row + Len(list) - 1
        avg_row == data_end_row + 1
    IN  [rc \in (1..avg_row) \X (1..LastColumn) |->
            LET row == rc[1]
                col == rc[2]
                idx == row - data_start_row
            IN  IF row < data_start_row THEN setup_calc_sheet_headers(c, row, col)
                ELSE IF row = avg_row THEN fill_average_row(col, data_end_row)
                ELSE IF col <= 25 THEN fill_student_data(list[idx + 1], idx, row, col)
                ELSE fill_achievement_data(c, list[idx + 1], row, col, data_end_row)]

calc_merged(avg_row) ==
    { <<"A", 1, "B", 1>>, <<"F", 1, "H", 1>>, <<"I", 1, "J", 1>>, <<"K", 1, "L", 1>>,
      <<"M", 1, "N", 1>>, <<"O", 1, "P", 1>>, <<"Q", 1, "R", 1>>, <<"S", 1, "V", 1>>,
      <<"W", 1, "Y", 1>>, <<"Z", 1, "AB", 1>>, <<"AC", 1, "AE", 1>>, <<"AG", 1, "AG", 2>>,
      <<"A", avg_row, "B", avg_row>> }


\* the criteria of the statistics rows 3..7: ">0.8"; ">=0.6","<=0.8"; ...
bucket_criteria_open(row) ==
    CASE row = 3 -> <<Crit(">", 8)>>
      [] row = 4 -> <<Crit(">=", 6), Crit("<", 8)>>
      [] row = 5 -> <<Crit(">=", 5), Crit("<", 6)>>
      [] row = 6 -> <<Crit(">=", 4), Crit("<", 5)>>
      [] row = 7 -> <<Crit("<", 4)>>

bucket_criteria(row) ==
    CASE row = 3 -> <<Crit(">", 8)>>
      [] row = 4 -> <<Crit(">=", 6), Crit("<=", 8)>>
      [] row = 5 -> <<Crit(">=", 5), Crit("<", 6)>>
      [] row = 6 -> <<Crit(">=", 4), Crit("<", 5)>>
      [] row = 7 -> <<Crit("<", 4)>>

\* =COUNTIF('calc'!W3:W5,">0.8") resp. =COUNTIFS('calc'!W3:W5,">=0.6",'calc'!W3:W5,"<=0.8")
\* the count whose range runs on into the averages row
count_formula_through_average(row, letter, data_end_row) ==
    LET r == Rng(CalcSheet, letter, data_start_row, data_end_row + 1, FALSE)
        cs == bucket_criteria(row)
    IN  IF Len(cs) = 1 THEN COUNTIF(r, cs[1]) ELSE COUNTIFS(r, cs[1], r, cs[2])

count_formula(row, letter, data_end_row) ==
    LET r == Rng(CalcSheet, letter, data_start_row, data_end_row, FALSE)
        cs == bucket_criteria(row)
    IN  IF Len(cs) = 1 THEN COUNTIF(r, cs[1]) ELSE COUNTIFS(r, cs[1], r, cs[2])

\* =C{row}/COUNT('calc'!W$3:W$5)
percent_formula(row, count_col, letter, data_end_row) ==
    Op("/", Ref(count_col, row), COUNT(Rng(CalcSheet, letter, data_start_row, data_end_row, TRUE)))

standards ==
    (3 :> <<<<">", "0", ".", "8">>, <<"wan", "quan", "da", "cheng">>>>)
    @@ (4 :> <<<<"0", ".", "6", "-", "0", ".", "8">>, <<"jiao", "hao", "da", "cheng">>>>)
    @@ (5 :> <<<<"0", ".", "5", "-", "0", ".", "6">>, <<"ji", "ben", "da", "cheng">>>>)
    @@ (6 :> <<<<"0", ".", "4", "-", "0", ".", "5">>, <<"jiao", "shao", "da", "cheng">>>>)
    @@ (7 :> <<<<"<", "0", ".", "4">>, <<"mei", "you", "da", "cheng">>>>)

\* the target column counted in statistics column 3..8
stat_target(col) == get_column_letter(23 + ((col - 3) \div 2))

\* _setup_statistics_sheet: rows 1..7, columns A..H
setup_statistics_sheet(data_end_row) ==
    [rc \in (1..7) \X (1..8) |->
        LET row == rc[1]
            col == rc[2]
        IN  CASE row = 1 ->
                    CASE col = 1 -> Plain(Str(DaChengDu))
                      [] col = 2 -> Plain(Str(<<"da", "cheng", "qing", "kuang">>))
                      [] col \in {3, 5, 7} -> Plain(Str(MuBiao \o IntStr((col - 1) \div 2)))
                      [] OTHER -> BorderOnly
              [] row = 2 ->
                    CASE col \in {1, 2} -> BorderOnly
                      [] col \in {3, 5, 7} -> Plain(Str(RenShu))
                      [] OTHER -> Plain(Str(ZhanBi))
              [] OTHER ->
                    CASE col \in {1, 2} -> Plain(Str(standards[row][col]))
                      [] col \in {3, 5, 7} ->
                            Plain(Formula(count_formula(row, stat_target(col), data_end_row)))
                      [] OTHER ->
                            Percent(Formula(percent_formula(row, get_column_letter(col - 1),
                                                            stat_target(col), data_end_row)))]

\* openpyxl Reference(ws, min_col, min_row, max_row)
Reference(ws, min_col, min_row, max_row) ==
    [ws |-> ws, min_col |-> min_col, min_row |-> min_row, max_row |-> max_row]


chart_configs ==
    << [title |-> MuBiao \o <<"1">> \o DaChengDu, y_col |-> 23, avg_col |-> 26, exp_col |-> 29],
       [title |-> MuBiao \o <<"2">> \o DaChengDu, y_col |-> 24, avg_col |-> 27, exp_col |-> 30],
       [title |-> MuBiao \o <<"3">> \o DaChengDu, y_col |-> 25, avg_col |-> 28, exp_col |-> 31],
       [title |-> <<"zong">> \o DaChengDu, y_col |-> 32, avg_col |-> 33, exp_col |-> 29] >>

\* the four line charts added to the calculation sheet
line_charts(data_end_row) ==
    [i \in 1..Len(chart_configs) |->
        LET cfg == chart_configs[i]
            num_students == data_end_row - data_start_row + 1
        IN  [kind |-> "LineChart", title |-> cfg.title,
             tick_skip |-> Max2(1, num_students \div 10),
             y_min |-> 0, y_max |-> 1,
             series |-> << Reference(CalcSheet, cfg.y_col, data_start_row - 1, data_end_row),
                           Reference(CalcSheet, cfg.avg_col, data_start_row - 1, data_end_row),
                           Reference(CalcSheet, cfg.exp_col, data_start_row - 1, data_end_row) >>,
             categories |-> Reference(CalcSheet, 9, data_start_row, data_end_row),
             anchor |-> <<get_column_letter(36 + ((i - 1) % 2) * 12), 2 + ((i - 1) \div 2) * 24>>]]

stat_chart_configs ==
    << [title |-> MuBiao \o <<"1">>, data_col |-> 4, anchor_col |-> 1],
       [title |-> MuBiao \o <<"2">>, data_col |-> 6, anchor_col |-> 9],
       [title |-> MuBiao \o <<"3">>, data_col |-> 8, anchor_col |-> 16] >>

\* the three bar charts added to the statistics sheet
bar_charts ==
    [i \in 1..Len(stat_chart_configs) |->
        LET cfg == stat_chart_configs[i]
        IN  [kind |-> "BarChart", title |-> cfg.title, tick_skip |-> 1,
             y_min |-> 0, y_max |-> 1,
             series |-> << Reference(StatSheet, cfg.data_col, 2, 7) >>,
             categories |-> Reference(StatSheet, 2, 3, 7),
             anchor |-> <<get_column_letter(cfg.anchor_col), 9>>]]

\* the workbook create_workbook saves for the sorted list and the config
create_workbook(c, list) ==
    LET data_end_row == data_start_row + Len(list) - 1
        avg_row == data_end_row + 1
    IN  [calc |-> [title |-> CalcSheet, cells |-> calc_cells(c, list),
                   merged |-> calc_merged(avg_row), charts |-> line_charts(data_end_row)],
         stat |-> [title |-> StatSheet, cells |-> setup_statistics_sheet(data_end_row),
                   merged |-> {<<"C", 1, "D", 1>>, <<"E", 1, "F", 1>>, <<"G", 1, "H", 1>>},
                   charts |-> bar_charts]]

-----------------------------------------------------------------------------
(* SpecWorkbook: process_file from the extracted records to the saved book *)

MaxStudents == 2

\* regular, final and total score of a normal record
ScoreTriples ==
    { <<80, 80, 80>>, <<60, 60, 60>>, <<40, 40, 40>>, <<0, 0, 0>>, <<85, 77, 79>> }

\* the score part of a record: normal, or special with a status
ScoreShapes ==
    { [regular |-> Num(s[1]), final |-> Num(s[2]), total |-> Num(s[3]), status |-> PyNone] :
        s \in ScoreTriples }
    \cup { [regular |-> PyNone, final |-> PyNone, total |-> PyNone, status |-> Str(st)] :
        st \in {<<"huan", "kao">>} }

\* records in the order of extraction: ids descend, so sorting reorders them
StudentLists ==
    { [k \in 1..Len(q) |->
          Record(<<"A">>, IdAt(9 - k, 0), Str(<<"x">>), q[k].final, q[k].regular,
                 q[k].total, q[k].status)] :
        q \in SeqsUpTo(ScoreShapes, MaxStudents) }

BookConfigs ==
    { DefaultConfig,
      [DefaultConfig EXCEPT !.ratio_1 = 0, !.ratio_2 = 50, !.ratio_3 = 50],
      [ratio_1 |-> 34, ratio_2 |-> 33, ratio_3 |-> 33, regular_score_ratio |-> 40,
       final_score_ratio |-> 60, achievement_expectation |-> 5] }

\* wb.save(output_file) returns, or raises one of the two typed failures
SaveOutcomes == {"saved", "PermissionError", "IOError"}

\* an exception: its type and the warnings its message lists
Failure(type, reasons) == [type |-> type, reasons |-> reasons]

\* the failure raised without the reasons
no_students_error_bare(ws) == Failure("ValueError", <<>>)

\* raise ValueError(error_msg): the message lists every warning
no_students_error(ws) == Failure("ValueError", ws)

\* dict(Counter([s['class'] for s in students]))
get_class_statistics(list) ==
    [c \in {list[k].class : k \in 1..Len(list)} |->
        Cardinality({k \in 1..Len(list) : list[k].class = c})]

\* the dictionary process_file returns
process_file_result(list, ws) ==
    [total_students |-> Len(list), class_statistics |-> get_class_statistics(list),
     warnings |-> ws]

\* the events with the last one reported whatever wb.save did
workbook_progress_always_done(outcome) ==
    << Report("sort", 30), Report("workbook", 35), Report("headers", 40),
       Report("data", 45), Report("computed", 60), Report("averaged", 70),
       Report("statistics", 75), Report("charts", 85), Report("save", 95),
       Report("done", 100) >>

\* the events of process_file from the sort to the end of create_workbook
workbook_progress(outcome) ==
    << Report("sort", 30), Report("workbook", 35), Report("headers", 40),
       Report("data", 45), Report("computed", 60), Report("averaged", 70),
       Report("statistics", 75), Report("charts", 85), Report("save", 95) >>
    \o (IF outcome = "saved" THEN <<Report("done", 100)>> ELSE <<>>)

InitWorkbook ==
    /\ pc = "extracted"
    /\ all_students \in StudentLists
    /\ config \in BookConfigs
    /\ validation = NoValidation
    /\ xl = [filename |-> <<>>, sheets |-> <<>>]
    /\ sheet_i = 0 /\ warnings = <<>> /\ header_row = -1 /\ col_groups = <<>>
    /\ current_sheet = <<>>
    /\ progress = <<Report("read", 5)>>
    /\ error = PyNone /\ result = PyNone /\ save_attempts = 0
    /\ IdleId /\ IdleBook /\ IdleApp

\* process_file when extraction gave no record: ValueError, nothing written
ProcessFileNoStudents ==
    /\ pc = "extracted"
    /\ all_students = <<>>
    /\ pc' = "ValueError"
    /\ error' = no_students_error(warnings)
    /\ UNCHANGED <<app, ui, worker, files, sid, sid_ok, config, validation, xl, sheet_i, all_students,
                   warnings, header_row, col_groups, students, ws_calc, ws_stat,
                   current_sheet, progress, result, save_attempts>>

\* process_file otherwise: sort, lay out both sheets, save
ProcessFile ==
    /\ pc = "extracted"
    /\ all_students # <<>>
    /\ students' = sort_students(all_students)
    /\ LET wb == create_workbook(config, students')
       IN  ws_calc' = wb.calc /\ ws_stat' = wb.stat
    /\ save_attempts' = save_attempts + 1
    /\ \E outcome \in SaveOutcomes :
           /\ pc' = outcome
           /\ progress' = progress \o workbook_progress(outcome)
           /\ error' = IF outcome = "saved" THEN PyNone ELSE Failure(outcome, <<>>)
           /\ result' = IF outcome = "saved"
                        THEN process_file_result(sort_students(all_students), warnings)
                        ELSE PyNone
    /\ UNCHANGED <<app, ui, worker, files, sid, sid_ok, config, validation, xl, sheet_i, all_students,
                   warnings, header_row, col_groups, current_sheet>>

NextWorkbook == ProcessFileNoStudents \/ ProcessFile

SpecWorkbook == InitWorkbook /\ [][NextWorkbook]_vars

\* the cells of both sheets, by sheet title
BookCells == (CalcSheet :> ws_calc.cells) @@ (StatSheet :> ws_stat.cells)

CalcCell(row, col) == ws_calc.cells[<<row, col>>]
StatCell(row, col) == ws_stat.cells[<<row, col>>]

\* the values shown in the rows of a range of the calculation sheet
ShownValues(r) ==
    [i \in 1..(r.r2 - r.r1 + 1) |-> Eval(BookCells, CalcSheet, Ref(r.col, r.r1 + i - 1))]

\* the criteria written into the count formula of statistics row `row`
WrittenCriteria(row, col) ==
    LET f == StatCell(row, col).value.f
    IN  [p \in 1..Len(f.pairs) |-> f.pairs[p].c]

InBucket(x, row, col) ==
    \A p \in 1..Len(WrittenCriteria(row, col)) : Satisfies(x, WrittenCriteria(row, col)[p])

\* C7: for each target column the five criteria written into the statistics
\* sheet partition the numeric attainment values: each numeric value is in
\* exactly one bucket, each blank or non-numeric cell in none, and the five
\* counts add up to the COUNT() of the same range, rows 3 .. 2+N.
C7_BucketsPartition ==
    pc \in SaveOutcomes =>
        \A col \in {3, 5, 7} :
            LET r == StatCell(3, col).value.f.pairs[1].r
                xs == ShownValues(r)
                counts == [k \in 1..5 |->
                              Eval(BookCells, StatSheet, Ref(get_column_letter(col), k + 2))]
                total == Eval(BookCells, StatSheet, StatCell(3, col + 1).value.f.b)
            IN  /\ r.r1 = 3 /\ r.r2 = 2 + Len(students)
                /\ r.col = get_column_letter(23 + (col - 3) \div 2)
                /\ \A row \in 3..7 :
                      /\ \A p \in 1..Len(StatCell(row, col).value.f.pairs) :
                            StatCell(row, col).value.f.pairs[p].r = r
                      /\ LET cr == StatCell(row, col + 1).value.f.b.r
                         IN  cr.col = r.col /\ cr.r1 = r.r1 /\ cr.r2 = r.r2
                                /\ cr.sheet = r.sheet
                /\ \A i \in 1..Len(xs) :
                      Cardinality({row \in 3..7 : InBucket(xs[i], row, col)})
                          = IF IsNumeric(xs[i]) THEN 1 ELSE 0
                /\ SumQ(counts, 5) = total
                /\ total = Q(Len(SelectSeq(xs, IsNumeric)), 1)

\* a book with a special row and a normal row whose target-1 attainment is
\* exactly 0.8: it is counted once, in the 0.6-0.8 bucket
C7_Witness ==
    /\ pc = "saved"
    /\ Len(students) = 2
    /\ students[1].status # PyNone
    /\ Eval(BookCells, CalcSheet, Ref("W", 3)) = XlBlank
    /\ Eval(BookCells, CalcSheet, Ref("W", 4)) = Q(8, 10)
    /\ Eval(BookCells, StatSheet, Ref("C", 4)) = Q(1, 1)
    /\ Eval(BookCells, StatSheet, StatCell(4, 4).value.f.b) = Q(1, 1)

IsFormula(cell) == cell.value.t = "formula"

\* C8: every student row has class, id, sequence number and name in A, B, I,
\* J and the expectation in AC..AE; a normal row has the raw scores in F, G, H
\* and formulas in C..E and K..Y; a special row has the status in H and no
\* value, only a border, in C..G and K..Y; no row mixes the two shapes.
C8_RowShapes ==
    pc \in SaveOutcomes =>
        \A idx \in 0..(Len(students) - 1) :
            LET st == students[idx + 1]
                row == 3 + idx
            IN  /\ CalcCell(row, 1).value = Str(st.class)
                /\ CalcCell(row, 2).value = Str(st.student_id)
                /\ CalcCell(row, 9).value = Num(idx + 1)
                /\ CalcCell(row, 10).value = st.name
                /\ \A col \in {29, 30, 31} :
                      CalcCell(row, col).value = Tenths(config.achievement_expectation)
                /\ IF st.status = PyNone
                   THEN /\ CalcCell(row, 6).value = st.regular_score
                        /\ CalcCell(row, 7).value = st.final_score
                        /\ CalcCell(row, 8).value = st.total_score
                        /\ \A col \in (3..5) \cup (11..25) : IsFormula(CalcCell(row, col))
                   ELSE /\ CalcCell(row, 8).value = st.status
                        /\ \A col \in (3..7) \cup (11..25) :
                              /\ CalcCell(row, col).value = PyNone
                              /\ CalcCell(row, col).border

\* a saved book whose first row is special and whose second row is normal
C8_Witness ==
    /\ pc = "saved"
    /\ Len(students) = 2
    /\ students[1].status = Str(<<"huan", "kao">>)
    /\ students[2].status = PyNone
    /\ CalcCell(3, 8).value = Str(<<"huan", "kao">>)
    /\ CalcCell(3, 23) = BorderOnly
    /\ CalcCell(4, 8).value = students[2].total_score
    /\ IsFormula(CalcCell(4, 23))

\* the broadcast formula =AVERAGE(<letter>$3:<letter>$<2+N>) as a cell value
WholeRangeAverage(letter) ==
    Formula(AVERAGE(Rng("", letter, 3, 2 + Len(students), TRUE)))

\* the columns Z, AA, AB, AG and the column each of them averages
AverageColumns == {<<26, "W">>, <<27, "X">>, <<28, "Y">>, <<33, "AF">>}

\* the series of every line chart that is drawn from one of the average
\* columns covers row 2 (its title) and the rows 3 .. 2+N
AverageSeriesCoverRows ==
    \A i \in 1..Len(ws_calc.charts) :
        /\ ws_calc.charts[i].series[2].min_col \in {26, 27, 28, 33}
        /\ ws_calc.charts[i].series[2].min_row = 2
        /\ ws_calc.charts[i].series[2].max_row = 2 + Len(students)

\* C17 as stated: every student row, normal and special alike, carries in Z,
\* AA, AB and AG the same whole-range AVERAGE formula over rows 3 .. 2+N of W,
\* X, Y and AF.
C17_EveryRowBroadcast ==
    pc \in SaveOutcomes =>
        /\ \A row \in 3..(2 + Len(students)) : \A p \in AverageColumns :
              CalcCell(row, p[1]).value = WholeRangeAverage(p[2])
        /\ AverageSeriesCoverRows

\* C17 (amended): every normal student row carries in Z, AA, AB and AG the
\* same whole-range AVERAGE formula over rows 3 .. 2+N of W, X, Y and AF; a
\* special row has only a border and no value in these four cells, so the
\* average-line series has a point for each normal row and a gap at each
\* special row.
C17_NormalRowsBroadcast ==
    pc \in SaveOutcomes =>
        /\ \A row \in 3..(2 + Len(students)) : \A p \in AverageColumns :
              IF students[row - 2].status = PyNone
              THEN /\ CalcCell(row, p[1]).value = WholeRangeAverage(p[2])
                   /\ CalcCell(row, p[1]).number_format = "0.00"
              ELSE CalcCell(row, p[1]) = [value |-> PyNone, border |-> TRUE,
                                          number_format |-> "General"]
        /\ AverageSeriesCoverRows

\* a book of a special row and a normal row: the normal row holds the
\* average over both rows, the special row holds no value
C17_Witness ==
    /\ pc = "saved"
    /\ Len(students) = 2
    /\ students[1].status # PyNone /\ students[2].status = PyNone
    /\ CalcCell(4, 26).value = Formula(AVERAGE(Rng("", "W", 3, 4, TRUE)))
    /\ CalcCell(3, 26).value = PyNone

\* the ranges a formula refers to
RECURSIVE RangesOf(_)
RangesOf(f) ==
    CASE f.k = "range" -> {f}
      [] f.k \in {"AVERAGE", "COUNT"} -> {f.r}
      [] f.k \in {"COUNTIF", "COUNTIFS"} -> {f.pairs[p].r : p \in 1..Len(f.pairs)}
      [] f.k = "op" -> RangesOf(f.a) \cup RangesOf(f.b)
      [] f.k = "ROUND" -> RangesOf(f.a)
      [] OTHER -> {}

\* the ranges referred to by the formulas of a sheet's cells
SheetRanges(cells) ==
    UNION {RangesOf(cells[rc].value.f) : rc \in {x \in DOMAIN cells : IsFormula(cells[x])}}

\* C18: record i of the sorted list is on row 3+i with sequence number i+1,
\* the averages row is row 3+N, and every row range referred to by a formula
\* of either sheet and by the categories of the line charts is rows 3 .. 2+N;
\* the chart series run from row 2, their title, to row 2+N.
C18_FixedRowLayout ==
    pc \in SaveOutcomes =>
        /\ DOMAIN ws_calc.cells = (1..(3 + Len(students))) \X (1..33)
        /\ \A i \in 0..(Len(students) - 1) :
              /\ CalcCell(3 + i, 2).value = Str(students[i + 1].student_id)
              /\ CalcCell(3 + i, 10).value = students[i + 1].name
              /\ CalcCell(3 + i, 9).value = Num(i + 1)
        /\ CalcCell(3 + Len(students), 1).value = Str(<<"(", "ping", "jun", "zhi", ")">>)
        /\ <<"A", 3 + Len(students), "B", 3 + Len(students)>> \in ws_calc.merged
        /\ \A r \in SheetRanges(ws_calc.cells) \cup SheetRanges(ws_stat.cells) :
              r.r1 = 3 /\ r.r2 = 2 + Len(students)
        /\ \A col \in {3, 5, 7} : \A row \in 3..7 :
              /\ RangesOf(StatCell(row, col).value.f) # {}
              /\ RangesOf(StatCell(row, col + 1).value.f) # {}
        /\ \A col \in (3..8) \cup (11..25) \cup {32} :
              RangesOf(CalcCell(3 + Len(students), col).value.f) # {}
        /\ \A c \in 1..Len(ws_calc.charts) :
              /\ ws_calc.charts[c].categories.min_row = 3
              /\ ws_calc.charts[c].categories.max_row = 2 + Len(students)
              /\ \A k \in 1..Len(ws_calc.charts[c].series) :
                    /\ ws_calc.charts[c].series[k].min_row = 2
                    /\ ws_calc.charts[c].series[k].max_row = 2 + Len(students)

\* a book of two records that extraction produced in descending id order:
\* sorted, the smaller id is on row 3 with number 1, the averages are on row 5
C18_Witness ==
    /\ pc = "saved"
    /\ Len(students) = 2
    /\ all_students[1].student_id = students[2].student_id
    /\ all_students[1].student_id # students[1].student_id
    /\ CalcCell(3, 9).value = Num(1) /\ CalcCell(4, 9).value = Num(2)
    /\ CalcCell(5, 3).value = Formula(AVERAGE(Rng("", "C", 3, 4, FALSE)))

-----------------------------------------------------------------------------
(* SpecFile: process_file from the call to its return or its exception *)

\* C29: in every workbook that is written, each of the ranges W, X, Y over
\* rows 3 .. 2+N holds at least one number, so the COUNT() that divides in
\* the percentage formulas of the statistics sheet is at least 1.
C29_CountAtLeastOne ==
    pc \in SaveOutcomes =>
        /\ Len(students) >= 1
        /\ \A col \in {4, 6, 8} : \A row \in 3..7 :
              /\ StatCell(row, col).value.f.b.k = "COUNT"
              /\ Eval(BookCells, StatSheet, StatCell(row, col).value.f.b).n >= 1
              /\ Eval(BookCells, StatSheet, StatCell(row, col).value.f) # XlError

\* the columns of the per-component attainment rates: K, L, M and O, P, Q
RateColumns == {11, 12, 13, 15, 16, 17}

\* C28: for a Config that validate accepts, the divisor of every attainment
\* rate formula of a normal row (the weight cell $C$1, $D$1 or $E$1) is not
\* zero, and so no such formula divides by zero.
C28_DivisorsNonZero ==
    pc \in SaveOutcomes /\ validate(config).ok =>
        \A idx \in 0..(Len(students) - 1) : \A col \in RateColumns :
            students[idx + 1].status = PyNone =>
                /\ CalcCell(3 + idx, col).value.f.a.b \in {WeightRef(0), WeightRef(1), WeightRef(2)}
                /\ Eval(BookCells, CalcSheet, CalcCell(3 + idx, col).value.f.a.b) # Q(0, 1)
                /\ Eval(BookCells, CalcSheet, CalcCell(3 + idx, col).value.f) # XlError


\* SpecRate: create_workbook for one normal record, over configurations
\* with positive target weights and scores between 0 and 100
RateWeights == { <<50, 30, 20>>, <<1, 1, 98>>, <<33, 33, 34>>, <<7, 13, 80>> }
RateRatios == { <<30, 70>>, <<0, 100>>, <<100, 0>> }
RateScores == {0, 1, 17, 49, 50, 51, 73, 99, 100}

RateConfigs ==
    { [ratio_1 |-> w[1], ratio_2 |-> w[2], ratio_3 |-> w[3],
       regular_score_ratio |-> r[1], final_score_ratio |-> r[2],
       achievement_expectation |-> 6] : w \in RateWeights, r \in RateRatios }

InitRate ==
    /\ pc = "extracted"
    /\ config \in RateConfigs
    /\ validation = validate(config)
    /\ \E reg \in RateScores : \E fin \in RateScores :
           all_students = <<Record(<<"A">>, IdAt(1, 0), Str(<<"x">>), Num(fin), Num(reg),
                                   Num(reg), PyNone)>>
    /\ xl = [filename |-> <<>>, sheets |-> <<>>]
    /\ sheet_i = 0 /\ warnings = <<>> /\ header_row = -1 /\ col_groups = <<>>
    /\ current_sheet = <<>>
    /\ progress = <<Report("read", 5)>>
    /\ error = PyNone /\ result = PyNone /\ save_attempts = 0
    /\ IdleId /\ IdleBook /\ IdleApp

NextRate == ProcessFile

SpecRate == InitRate /\ [][NextRate]_vars

\* the value a cell of the calculation sheet shows
Shown(row, col) == Eval(BookCells, CalcSheet, Ref(get_column_letter(col), row))

InUnitInterval(x) == IsNumeric(x) /\ 0 <= x.n /\ x.n <= x.d

\* C30: with a validated Config of positive target weights and regular and
\* final scores that are integers in 0..100, the normalized attainment the
\* row formulas give for each target (columns W, X, Y) lies in [0, 1], the
\* range of the Y axis of the line charts.
C30_AttainmentInUnitInterval ==
    pc \in SaveOutcomes =>
        /\ validation.ok
        /\ \A k \in 1..Len(ws_calc.charts) :
              ws_calc.charts[k].y_min = 0 /\ ws_calc.charts[k].y_max = 1
        /\ \A idx \in 0..(Len(students) - 1) : \A col \in {23, 24, 25} :
              /\ InUnitInterval(Shown(3 + idx, col))
              /\ \A c \in RateColumns :
                    /\ IsNumeric(Shown(3 + idx, c))
                    /\ 0 <= Shown(3 + idx, c).n
                    /\ Shown(3 + idx, c).n <= 100 * Shown(3 + idx, c).d

\* weight 20, regular 73 and final 100: ROUND(14.6) = 15 lifts the regular
\* rate to 75, the final rate is 100, and the attainment stays below 1
C30_Witness ==
    /\ pc = "saved"
    /\ config.ratio_3 = 20 /\ config.regular_score_ratio = 30
    /\ students[1].regular_score = Num(73) /\ students[1].final_score = Num(100)
    /\ Shown(3, 13) = Q(75, 1)
    /\ Shown(3, 17) = Q(100, 1)
    /\ Shown(3, 25) = Q(925, 1000)


\* grids of a sheet that is read, of one without header row and of one whose
\* only group lacks the total column
FileGrids ==
    { Grid(0, <<HeaderCells(t), DataCells(t, 1, s)>>) :
        t \in {<<HId, HName, HRegular, HFinal, HTotal>>, <<HId, HName, HRegular, HFinal>>,
               <<HSeq, HNote>>},
        s \in {NormalScores} }

FileBooks ==
    {Book(<<Sheet(n1, d1), Sheet(<<"B">>, d2)>>) :
        n1 \in {Sheet1, <<"A">>}, d1 \in PairSheets, d2 \in PairSheets}
    \cup {Book(<<Sheet(<<"A">>, d1), Sheet(<<"B">>, d2), Sheet(<<"C">>, d3)>>) :
            d1 \in FileGrids, d2 \in FileGrids, d3 \in FileGrids}

\* os.path.exists and pd.ExcelFile: the file opens, or one of three failures
OpenOutcomes == {"opened", "FileNotFoundError", "PermissionError", "ValueError"}

InitFile ==
    /\ pc = "start"
    /\ xl \in FileBooks
    /\ config = DefaultConfig /\ validation = NoValidation
    /\ sheet_i = 0 /\ all_students = <<>> /\ warnings = <<>>
    /\ header_row = -1 /\ col_groups = <<>>
    /\ IdleId /\ IdleBook /\ IdleFile /\ IdleApp

\* the opening that keeps the warnings list of the call before
OpenFile_keep_warnings ==
    /\ pc = "start"
    /\ progress' = Append(progress, Report("read", 5))
    /\ \E outcome \in OpenOutcomes :
           /\ pc' = IF outcome = "opened" THEN "extracting" ELSE "ReadFailed"
           /\ error' = IF outcome = "opened" THEN PyNone ELSE Failure(outcome, <<>>)
           /\ IF outcome = "opened"
              THEN all_students' = <<>> /\ sheet_i' = 0
              ELSE UNCHANGED <<all_students, sheet_i>>
    /\ UNCHANGED <<app, ui, worker, files, sid, sid_ok, config, validation, xl, warnings,
                   header_row, col_groups, students, ws_calc, ws_stat,
                   current_sheet, result, save_attempts>>

\* the first event, the existence check and the opening of the workbook;
\* once it is open, all_students = [], warnings = [], processed_sheets = 0
OpenFile ==
    /\ pc = "start"
    /\ progress' = Append(progress, Report("read", 5))
    /\ \E outcome \in OpenOutcomes :
           /\ pc' = IF outcome = "opened" THEN "extracting" ELSE "ReadFailed"
           /\ error' = IF outcome = "opened" THEN PyNone ELSE Failure(outcome, <<>>)
           /\ IF outcome = "opened"
              THEN all_students' = <<>> /\ warnings' = <<>> /\ sheet_i' = 0
              ELSE UNCHANGED <<all_students, warnings, sheet_i>>
    /\ UNCHANGED <<app, ui, worker, files, sid, sid_ok, config, validation, xl,
                   header_row, col_groups, students, ws_calc, ws_stat,
                   current_sheet, result, save_attempts>>

NextFile ==
    OpenFile \/ ProcessSheet \/ ReturnStudents \/ ProcessFileNoStudents \/ ProcessFile

SpecFile == InitFile /\ [][NextFile]_vars

\* SpecBatch: process_file called twice on one AchievementProcessor
BatchBooks ==
    { Book(<<Sheet(<<"A">>, Grid(0, <<HeaderCells(t), DataCells(t, k, NormalScores)>>))>>) :
        t \in {<<HId, HName, HRegular, HFinal, HTotal>>,
               <<HClass, HId, HName, HRegular, HFinal, HTotal>>,
               <<HId, HName, HRegular, HFinal>>, <<HSeq, HNote>>},
        k \in {1} }
    \cup { Book(<<Sheet(<<"A">>, d1),
                  Sheet(<<"B">>, Grid(0, <<HeaderCells(<<HSeq, HNote>>),
                                           DataCells(<<HSeq, HNote>>, 2, NormalScores)>>))>>) :
             d1 \in TripleGrids(1) }
    \cup { [filename |-> <<"ruan", "jian", "2", "2", "0", "1">>,
            sheets |-> <<Sheet(MusicSheet, d)>>] : d \in TripleGrids(3) }

InitBatch ==
    /\ pc = "start"
    /\ \E first \in BatchBooks : \E second \in BatchBooks :
           /\ worker = [batch |-> <<first, second>>, idx |-> 1]
           /\ xl = first
    /\ config = DefaultConfig /\ validation = NoValidation
    /\ sheet_i = 0 /\ all_students = <<>> /\ warnings = <<>>
    /\ header_row = -1 /\ col_groups = <<>>
    /\ app = <<>> /\ ui = <<>> /\ files = {}
    /\ IdleId /\ IdleBook /\ IdleFile

\* the run on one file is over: it returned or raised
Returned == pc \in {"ReadFailed", "ValueError", "KeyError"} \cup SaveOutcomes

\* the caller sets a new progress callback and calls process_file on the
\* next file; the locals and the return value of the call before are gone,
\* the processor object is the same
NextInput ==
    /\ Returned
    /\ worker.idx < Len(worker.batch)
    /\ worker' = [worker EXCEPT !.idx = @ + 1]
    /\ xl' = worker.batch[worker.idx + 1]
    /\ pc' = "start"
    /\ progress' = <<>>
    /\ error' = PyNone /\ result' = PyNone /\ save_attempts' = 0
    /\ students' = <<>> /\ ws_calc' = <<>> /\ ws_stat' = <<>>
    /\ UNCHANGED <<app, ui, files, sid, sid_ok, config, validation, sheet_i, all_students,
                   warnings, header_row, col_groups, current_sheet>>

NextBatch == NextFile \/ NextInput

SpecBatch == InitBatch /\ [][NextBatch]_vars

\* what process_file gives for the workbook xl on its own
Alone == extract_students(sheets_to_process(xl), xl.filename, <<>>, <<>>)

SameAsAlone(run) ==
    /\ all_students = run.students
    /\ warnings = run.warnings
    /\ pc = "ValueError" =>
          /\ run.students = <<>>
          /\ error = no_students_error(run.warnings)
          /\ result = PyNone /\ ws_calc = <<>> /\ ws_stat = <<>>
    /\ pc \in SaveOutcomes =>
          /\ students = sort_students(run.students)
          /\ ws_calc = create_workbook(config, sort_students(run.students)).calc
          /\ ws_stat = create_workbook(config, sort_students(run.students)).stat
    /\ pc = "saved" =>
          result = process_file_result(sort_students(run.students), run.warnings)

\* C27: what process_file gives for a file (records, class counts, warnings,
\* cells, or the failure) does not depend on the files the same processor
\* handled before.
C27_NoCarryOver ==
    /\ pc \in {"extracted", "ValueError"} \cup SaveOutcomes => SameAsAlone(Alone)
    /\ pc = "ReadFailed" => result = PyNone /\ ws_calc = <<>> /\ error.reasons = <<>>
    /\ pc = "extracting" =>
          /\ Len(warnings) <= Len(Alone.warnings)
          /\ \A k \in 1..Len(warnings) : warnings[k] = Alone.warnings[k]
          /\ Len(all_students) <= Len(Alone.students)
          /\ \A k \in 1..Len(all_students) : all_students[k] = Alone.students[k]

\* the second file was saved after a first file that ended with ValueError
\* and two warnings; the second has a warning of its own and another class
C27_Witness ==
    /\ pc = "saved"
    /\ worker.idx = 2
    /\ Len(sheets_to_process(worker.batch[1])) = 2
    /\ extract_students(sheets_to_process(worker.batch[1]), worker.batch[1].filename,
                        <<>>, <<>>).students = <<>>
    /\ xl.filename # PlainName
    /\ Len(all_students) = 1
    /\ all_students[1].class # <<>>
    /\ result.total_students = 1

\* the checkpoints in the order the claim gives them
Checkpoints ==
    <<"read", "sheet", "sort", "headers", "data", "computed", "averaged",
      "statistics", "charts", "save", "done">>

Rank(stage) == CHOOSE k \in 1..Len(Checkpoints) : Checkpoints[k] = stage

\* the events whose stage is one of the checkpoints
Listed == SelectSeq(progress, LAMBDA e : \E k \in 1..Len(Checkpoints) : Checkpoints[k] = e.stage)

\* C19: within one call of process_file the percentages passed to the
\* callback never decrease, each lies in 0..100, and the checkpoints come in
\* the order read-file, per-sheet, sort, headers, data, computed, averaged,
\* statistics, charts, save, done; only the per-sheet checkpoint repeats.
C19_ProgressMonotone ==
    /\ \A a \in 1..Len(progress) :
          /\ progress[a].percent \in 0..100
          /\ \A b \in (a + 1)..Len(progress) : progress[a].percent <= progress[b].percent
    /\ \A a \in 1..Len(Listed) : \A b \in (a + 1)..Len(Listed) :
          /\ Rank(Listed[a].stage) <= Rank(Listed[b].stage)
          /\ Rank(Listed[a].stage) = Rank(Listed[b].stage) => Listed[a].stage = "sheet"
    /\ Len(progress) >= 1 => progress[1] = [stage |-> "read", percent |-> 5]
    /\ pc = "saved" =>
          [k \in 1..Len(SelectSeq(Listed, LAMBDA e : e.stage # "sheet")) |->
              SelectSeq(Listed, LAMBDA e : e.stage # "sheet")[k].stage]
            = <<"read", "sort", "headers", "data", "computed", "averaged",
                "statistics", "charts", "save", "done">>

\* a workbook of three sheets, one of them skipped for want of a header row:
\* two per-sheet events, then the events of the sort and of the workbook
C19_Witness ==
    /\ pc = "saved"
    /\ Len(xl.sheets) = 3
    /\ Len(WarningsOf(<<"B">>, {"no_header_row"})) = 1
    /\ Len(SelectSeq(progress, LAMBDA e : e.stage = "sheet")) = 2
    /\ progress[2].percent = 13 /\ progress[3].percent = 21
    /\ progress[Len(progress)] = [stage |-> "done", percent |-> 100]

\* C20: when extraction yields no record, process_file raises a failure whose
\* message lists every warning collected for the file; it does so before the
\* sort: no create_workbook, no save, no sheet contents, no result, and no
\* progress event beyond those of the extraction.  A workbook is written and a
\* result returned only for a non-empty list of records.
C20_NoStudentsFails ==
    /\ pc = "ValueError" =>
          /\ all_students = <<>>
          /\ error.type = "ValueError"
          /\ error.reasons = warnings
          /\ students = <<>> /\ ws_calc = <<>> /\ ws_stat = <<>>
          /\ save_attempts = 0
          /\ result = PyNone
          /\ \A k \in 1..Len(progress) : progress[k].stage \in {"read", "sheet"}
    /\ (pc \in SaveOutcomes \/ result # PyNone \/ save_attempts > 0 \/ ws_calc # <<>>)
          => all_students # <<>>
    /\ (pc = "extracted" /\ all_students = <<>>) => ~ENABLED ProcessFile

\* three sheets, none of which gave a record: one without header row, one
\* without total column; the failure lists the warnings of all of them
C20_Witness ==
    /\ pc = "ValueError"
    /\ Len(xl.sheets) = 3
    /\ \E k \in 1..Len(error.reasons) : error.reasons[k].kind = "no_header_row"
    /\ \E k \in 1..Len(error.reasons) : error.reasons[k].kind = "missing_columns"
    /\ Len(error.reasons) >= 3
    /\ error.reasons = warnings

\* the events of the run that report 100%
DoneEvents == {k \in 1..Len(progress) : progress[k].percent = 100 \/ progress[k].stage = "done"}

\* C22: wb.save is called once.  When it fails, PermissionError or IOError
\* leaves process_file, nothing more is attempted, no 100% event is
\* reported and no result returned; the 100% event is reported only after
\* a successful save and is the last event.
C22_SaveOnceNoRetry ==
    /\ save_attempts <= 1
    /\ pc \in SaveOutcomes => save_attempts = 1
    /\ pc \in SaveOutcomes \ {"saved"} =>
           /\ error = Failure(pc, <<>>)
           /\ error.type \in {"PermissionError", "IOError"}
           /\ result = PyNone
           /\ DoneEvents = {}
           /\ progress[Len(progress)] = Report("save", 95)
           /\ ~ENABLED NextFile
    /\ DoneEvents # {} =>
           /\ pc = "saved" /\ save_attempts = 1 /\ error = PyNone /\ result # PyNone
           /\ DoneEvents = {Len(progress)}
           /\ progress[Len(progress)] = Report("done", 100)
    /\ pc = "saved" => DoneEvents # {}
    /\ result # PyNone => pc = "saved"

\* the save of a laid-out workbook failed for lack of permission
C22_Witness ==
    /\ pc = "PermissionError"
    /\ save_attempts = 1
    /\ ws_calc # <<>> /\ ws_stat # <<>>
    /\ error = Failure("PermissionError", <<>>)
    /\ progress[Len(progress)] = Report("save", 95)
    /\ result = PyNone

-----------------------------------------------------------------------------
(* main.py: the window, its handlers (UI thread) and _process_files (worker
   thread).  SpecRace: key events on the parameter fields while the worker
   lays out one workbook. *)

\* the attributes of Config in the order _validate_config assigns them
config_fields ==
    <<"ratio_1", "ratio_2", "ratio_3", "regular_score_ratio", "final_score_ratio",
      "achievement_expectation">>

\* int(text or 0); ok = FALSE stands for ValueError
py_int(txt) ==
    IF txt = <<>> THEN [ok |-> TRUE, val |-> 0]
    ELSE IF \A k \in 1..Len(txt) : isdigit(txt[k]) THEN [ok |-> TRUE, val |-> IntOf(txt)]
    ELSE IF Len(txt) > 1 /\ Head(txt) = "-" /\ \A k \in 2..Len(txt) : isdigit(txt[k])
    THEN [ok |-> TRUE, val |-> 0 - IntOf(Tail(txt))]
    ELSE [ok |-> FALSE, val |-> 0]

\* float(text or 0), in tenths, for texts of the forms "d" and "d.d"
py_float(txt) ==
    IF txt = <<>> THEN [ok |-> TRUE, val |-> 0]
    ELSE IF \A k \in 1..Len(txt) : isdigit(txt[k])
    THEN [ok |-> TRUE, val |-> 10 * IntOf(txt)]
    ELSE IF Len(txt) = 3 /\ isdigit(txt[1]) /\ txt[2] = "." /\ isdigit(txt[3])
    THEN [ok |-> TRUE, val |-> 10 * IntOf(<<txt[1]>>) + IntOf(<<txt[3]>>)]
    ELSE [ok |-> FALSE, val |-> 0]

\* the value assignment number k of _validate_config reads from its entry
entry_value(entries, k) ==
    IF k = 6 THEN py_float(entries[config_fields[k]]) ELSE py_int(entries[config_fields[k]])

\* _validate_config run without interruption from assignment k on: the Config
\* it leaves and what it returns
RECURSIVE validate_config(_, _, _)
validate_config(c, entries, k) ==
    IF k > Len(config_fields) THEN [config |-> c, validation |-> validate(c)]
    ELSE IF ~entry_value(entries, k).ok
    THEN [config |-> c, validation |-> Result(FALSE, "please enter valid numbers", 0)]
    ELSE validate_config([c EXCEPT ![config_fields[k]] = entry_value(entries, k).val],
                         entries, k + 1)

DefaultEntries ==
    [f \in Range(config_fields) |->
        CASE f = "ratio_1" -> <<"5", "0">>
          [] f = "ratio_2" -> <<"3", "0">>
          [] f = "ratio_3" -> <<"2", "0">>
          [] f = "regular_score_ratio" -> <<"3", "0">>
          [] f = "final_score_ratio" -> <<"7", "0">>
          [] f = "achievement_expectation" -> <<"0", ".", "6">>]

\* key events of one run
MaxEdits == 2

\* what a field may hold after a key is released
KeyEdits ==
    { <<"ratio_1", <<"5">>>>, <<"ratio_1", <<"4", "0">>>>, <<"ratio_2", <<"4", "0">>>>,
      <<"ratio_3", <<"2", "x">>>>, <<"regular_score_ratio", <<>>>>,
      <<"achievement_expectation", <<"0", ".", "7">>>>,
      <<"achievement_expectation", <<"6">>>> }

UiIdle == [handler |-> "idle", pc |-> 0, events |-> 0]

\* the reads of Config attributes by create_workbook and the methods it
\* calls, in program order, for a list of one record
config_reads ==
    <<"ratio_1", "ratio_2", "ratio_3", "regular_score_ratio", "final_score_ratio",
      "achievement_expectation", "achievement_expectation", "achievement_expectation">>


ConfigRead(seen) ==
    [f \in Range(config_fields) |->
        seen[CHOOSE k \in 1..Len(config_fields) : config_fields[k] = f]]

\* the workbook laid out from the values read: cells AC..AE of the data row
\* hold the value read for each of them
write_workbook(wb, seen) ==
    [wb EXCEPT !.calc.cells =
        [rc \in DOMAIN @ |->
            IF rc[1] = data_start_row /\ rc[2] \in 29..31
            THEN TwoDecimals(Tenths(seen[rc[2] - 23])) ELSE @[rc]]]

RaceStudents ==
    <<Record(<<"A">>, IdAt(1, 0), Str(<<"x">>), Num(80), Num(80), Num(80), PyNone)>>

InitRace ==
    /\ pc = "window"
    /\ config = DefaultConfig /\ validation = NoValidation
    /\ app = [entries |-> DefaultEntries, generate_btn |-> "normal"]
    /\ ui = UiIdle
    /\ worker = [pc |-> 0, seen |-> <<>>]
    /\ files = {}
    /\ IdleId /\ IdleExtract /\ IdleBook /\ IdleFile

\* <KeyRelease> on a parameter field: the entry holds the new text and
\* _validate_config starts
KeyRelease ==
    /\ ui.handler = "idle"
    /\ ui.events < MaxEdits
    /\ \E e \in KeyEdits :
           /\ app.entries[e[1]] # e[2]
           /\ app' = [app EXCEPT !.entries[e[1]] = e[2]]
    /\ ui' = [handler |-> "_validate_config", pc |-> 1, events |-> ui.events + 1]
    /\ UNCHANGED <<pc, worker, files, sid, sid_ok, config, validation, xl, sheet_i,
                   all_students, warnings, header_row, col_groups, students, ws_calc,
                   ws_stat, current_sheet, progress, error, result, save_attempts>>

\* one statement of _validate_config: an assignment to self.config, or the
\* call of validate after the last one; ValueError ends the handler
ValidateConfigStep ==
    /\ ui.handler = "_validate_config"
    /\ IF ui.pc > Len(config_fields)
       THEN /\ validation' = validate(config)
            /\ ui' = [ui EXCEPT !.handler = "idle", !.pc = 0]
            /\ UNCHANGED config
       ELSE IF ~entry_value(app.entries, ui.pc).ok
       THEN /\ validation' = Result(FALSE, "please enter valid numbers", 0)
            /\ ui' = [ui EXCEPT !.handler = "idle", !.pc = 0]
            /\ UNCHANGED config
       ELSE /\ config' = [config EXCEPT ![config_fields[ui.pc]] =
                                            entry_value(app.entries, ui.pc).val]
            /\ ui' = [ui EXCEPT !.pc = ui.pc + 1]
            /\ UNCHANGED validation
    /\ UNCHANGED <<pc, app, worker, files, sid, sid_ok, xl, sheet_i,
                   all_students, warnings, header_row, col_groups, students, ws_calc,
                   ws_stat, current_sheet, progress, error, result, save_attempts>>

\* _on_generate: _validate_config, then the button is disabled and the
\* worker thread started; a warning box and return when the check fails
OnGenerate ==
    /\ ui.handler = "idle"
    /\ app.generate_btn = "normal"
    /\ pc = "window"
    /\ \E r \in {validate_config(config, app.entries, 1)} :
           /\ config' = r.config
           /\ validation' = r.validation
           /\ IF r.validation.ok
              THEN /\ app' = [app EXCEPT !.generate_btn = "disabled"]
                   /\ worker' = [pc |-> 1, seen |-> <<>>]
                   /\ pc' = "processing"
              ELSE UNCHANGED <<app, worker, pc>>
    /\ UNCHANGED <<ui, files, sid, sid_ok, xl, sheet_i,
                   all_students, warnings, header_row, col_groups, students, ws_calc,
                   ws_stat, current_sheet, progress, error, result, save_attempts>>

\* the worker reads one attribute of self.config
WorkerRead ==
    /\ pc = "processing"
    /\ worker.pc \in 1..Len(config_reads)
    /\ worker' = [pc |-> worker.pc + 1,
                  seen |-> Append(worker.seen, config[config_reads[worker.pc]])]
    /\ UNCHANGED <<pc, app, ui, files, sid, sid_ok, config, validation, xl, sheet_i,
                   all_students, warnings, header_row, col_groups, students, ws_calc,
                   ws_stat, current_sheet, progress, error, result, save_attempts>>

\* the workbook is complete and saved
WorkerSave ==
    /\ pc = "processing"
    /\ worker.pc = Len(config_reads) + 1
    /\ pc' = "saved"
    /\ students' = RaceStudents
    /\ \E wb \in {write_workbook(create_workbook(ConfigRead(worker.seen), RaceStudents),
                                 worker.seen)} :
           ws_calc' = wb.calc /\ ws_stat' = wb.stat
    /\ save_attempts' = save_attempts + 1
    /\ UNCHANGED <<app, ui, worker, files, sid, sid_ok, config, validation, xl, sheet_i,
                   all_students, warnings, header_row, col_groups,
                   current_sheet, progress, error, result>>

NextRace == KeyRelease \/ ValidateConfigStep \/ OnGenerate \/ WorkerRead \/ WorkerSave

SpecRace == InitRace /\ [][NextRace]_vars

\* the Config the cells of the saved workbook spell out
WrittenConfig ==
    [ratio_1 |-> ws_calc.cells[<<1, 3>>].value.v,
     ratio_2 |-> ws_calc.cells[<<1, 4>>].value.v,
     ratio_3 |-> ws_calc.cells[<<1, 5>>].value.v,
     regular_score_ratio |-> ws_calc.cells[<<1, 13>>].value.v,
     final_score_ratio |-> ws_calc.cells[<<1, 17>>].value.v,
     achievement_expectation |-> ws_calc.cells[<<data_start_row, 29>>].value.v]

\* C23: the weights and the threshold written into one workbook come from a
\* single Config that passed validate.
C23_OneValidConfigWritten ==
    pc = "saved" =>
        /\ validate(WrittenConfig).ok
        /\ ws_calc.cells[<<data_start_row, 30>>] = ws_calc.cells[<<data_start_row, 29>>]
        /\ ws_calc.cells[<<data_start_row, 31>>] = ws_calc.cells[<<data_start_row, 29>>]

\* C23, first part: while the worker runs, self.config is not assigned to.
C23_ConfigFrozenWhileProcessing ==
    [][pc = "processing" => config' = config]_vars


-----------------------------------------------------------------------------
(* _get_unique_filename.  A path is a sequence of characters; the set files
   holds the paths for which os.path.exists is true. *)

\* the position of the last "." of the file name part, 0 if there is none
LastDot(path) ==
    LET dots == {k \in 1..Len(path) :
                    /\ path[k] = "."
                    /\ \A n \in k..Len(path) : path[n] # "/"
                    /\ k > 1 /\ path[k - 1] # "/"}
    IN  IF dots = {} THEN 0 ELSE CHOOSE k \in dots : \A n \in dots : n <= k

\* os.path.splitext(filepath)
splitext(path) ==
    IF LastDot(path) = 0 THEN <<path, <<>>>>
    ELSE <<SubSeq(path, 1, LastDot(path) - 1), SubSeq(path, LastDot(path), Len(path))>>

\* f"{base}_{counter}{ext}"
new_path(base, counter, ext) == base \o <<"_">> \o IntStr(counter) \o ext

\* the first candidate taken without looking whether it exists
probe_once(base, ext, counter, existing) == new_path(base, counter, ext)

\* the loop "while True" from the value counter on
RECURSIVE probe(_, _, _, _)
probe(base, ext, counter, existing) ==
    IF new_path(base, counter, ext) \notin existing THEN new_path(base, counter, ext)
    ELSE probe(base, ext, counter + 1, existing)

get_unique_filename(filepath, existing) ==
    IF filepath \notin existing THEN filepath
    ELSE probe(splitext(filepath)[1], splitext(filepath)[2], 1, existing)

\* the suffix of an output file name: "_report.xlsx"
ReportSuffix == <<"_", "da", "cheng", "du", BaoGao[1], BaoGao[2], ".", "x", "l", "s", "x">>

\* the paths that may exist before the probe
MaxSuffix == 3

ProbePaths ==
    LET out == <<"o", "/", "a">> \o ReportSuffix
    IN  {out} \cup {new_path(splitext(out)[1], n, splitext(out)[2]) : n \in 0..MaxSuffix}
        \cup {new_path(splitext(out)[1], 1, <<>>), <<"o", ".", "d", "/", "a">>,
              new_path(<<"o", ".", "d", "/", "a">>, 1, <<>>)}

InitUnique ==
    /\ pc = "probe"
    /\ files \in SUBSET ProbePaths
    /\ app = [filepath |-> <<>>]
    /\ ui = <<>> /\ worker = [output_file |-> <<>>]
    /\ IdleId /\ IdleConfig /\ IdleExtract /\ IdleBook /\ IdleFile

\* output_file = self._get_unique_filename(output_file)
GetUniqueFilename ==
    /\ pc = "probe"
    /\ \E filepath \in {<<"o", "/", "a">> \o ReportSuffix, <<"o", ".", "d", "/", "a">>} :
           /\ app' = [filepath |-> filepath]
           /\ worker' = [output_file |-> get_unique_filename(filepath, files)]
    /\ pc' = "probed"
    /\ UNCHANGED <<ui, files, sid, sid_ok, config, validation, xl, sheet_i,
                   all_students, warnings, header_row, col_groups, students, ws_calc,
                   ws_stat, current_sheet, progress, error, result, save_attempts>>

NextUnique == GetUniqueFilename

SpecUnique == InitUnique /\ [][NextUnique]_vars

\* the text before the extension and the extension, told apart by hand
StemOf(path) == IF path[Len(path)] = "x" THEN SubSeq(path, 1, Len(path) - 5) ELSE path
ExtOf(path) == IF path[Len(path)] = "x" THEN <<".", "x", "l", "s", "x">> ELSE <<>>

\* C25: the path is returned unchanged when it does not exist; otherwise the
\* result is base_N.ext for the least N >= 1 for which that path does not
\* exist; the result is never an existing path.
C25_FirstFreeSuffix ==
    pc = "probed" =>
        /\ worker.output_file \notin files
        /\ app.filepath \notin files => worker.output_file = app.filepath
        /\ app.filepath \in files =>
              \E n \in 1..(MaxSuffix + 1) :
                  /\ worker.output_file =
                         StemOf(app.filepath) \o <<"_">> \o IntStr(n) \o ExtOf(app.filepath)
                  /\ \A k \in 1..(n - 1) :
                         StemOf(app.filepath) \o <<"_">> \o IntStr(k) \o ExtOf(app.filepath)
                             \in files

\* the report and its copies _1 and _2 exist, _0 does not: the result is _3
C25_Witness ==
    /\ pc = "probed"
    /\ app.filepath = <<"o", "/", "a">> \o ReportSuffix
    /\ app.filepath \in files
    /\ new_path(StemOf(app.filepath), 0, ExtOf(app.filepath)) \notin files
    /\ new_path(StemOf(app.filepath), 1, ExtOf(app.filepath)) \in files
    /\ new_path(StemOf(app.filepath), 2, ExtOf(app.filepath)) \in files
    /\ worker.output_file = new_path(StemOf(app.filepath), 3, ExtOf(app.filepath))


-----------------------------------------------------------------------------
(* SpecApp: _process_files on the worker thread, the callbacks it hands to
   the UI thread with self.after, and the overwrite dialog.  The state
   starts where _on_generate has started the thread.  app.scheduled is the
   history of all self.after calls and ui.answers the history of the
   user's answers; the program does not read them. *)

MaxFiles == 2

\* an input file: its directory and its name without extension
InputFiles ==
    { [dir |-> <<"p">>, name |-> <<"a">>], [dir |-> <<"q">>, name |-> <<"a">>],
      [dir |-> <<"p">>, name |-> <<"b">>] }

Batches ==
    {q \in SeqsUpTo(InputFiles, MaxFiles) :
        q # <<>> /\ \A a \in 1..Len(q) : \A b \in 1..Len(q) : a # b => q[a] # q[b]}

\* os.path.join(output_dir, f"{name_without_ext}_....xlsx")
output_path(output_dir, f) ==
    (IF output_dir # <<>> THEN output_dir ELSE f.dir) \o <<"/">> \o f.name \o ReportSuffix

\* what process_file does with one file: it returns, or raises
ProcessOutcomes ==
    {"returned"} \cup (OpenOutcomes \ {"opened"}) \cup {"ValueError"}
    \cup (SaveOutcomes \ {"saved"})

\* the answers of askyesnocancel as _show_overwrite_dialog stores them
Choices == {"overwrite", "rename", "skip"}

DialogCall(filepath) == [fn |-> "_show_overwrite_dialog", filepath |-> filepath]

CompleteCall(w) ==
    [fn |-> "_on_process_complete", success_count |-> w.success_count,
     fail_count |-> w.fail_count, skip_count |-> w.skip_count, results |-> w.results]

\* one line of the results list
ResultLine(filename, kind, detail) == [filename |-> filename, kind |-> kind, detail |-> detail]

InitApp ==
    /\ pc = "processing"
    /\ \E batch \in Batches : \E output_dir \in {<<>>, <<"o">>} :
           app = [selected_files |-> batch, output_dir |-> output_dir,
                  _overwrite_event |-> FALSE, _overwrite_result |-> "",
                  after_queue |-> <<>>, scheduled |-> <<>>, generate_btn |-> "disabled"]
    /\ ui = [handler |-> "idle", filepath |-> <<>>, answers |-> <<>>, completed |-> 0]
    /\ worker = [pc |-> "start", batch |-> <<>>, total_files |-> 0, idx |-> 0,
                 output_file |-> <<>>, asked |-> FALSE,
                 success_count |-> 0, fail_count |-> 0, skip_count |-> 0,
                 results |-> <<>>, output_files |-> <<>>]
    /\ files \in SUBSET { <<"o", "/", "a">> \o ReportSuffix,
                          <<"p", "/", "a">> \o ReportSuffix,
                          new_path(splitext(<<"o", "/", "a">> \o ReportSuffix)[1], 1,
                                   splitext(<<"o", "/", "a">> \o ReportSuffix)[2]) }
    /\ config = DefaultConfig /\ validation = validate(DefaultConfig)
    /\ IdleId /\ IdleExtract /\ IdleBook /\ IdleFile

AppUnchanged ==
    UNCHANGED <<sid, sid_ok, config, validation, xl, sheet_i, all_students, warnings,
                header_row, col_groups, students, ws_calc, ws_stat, current_sheet,
                progress, error, result, save_attempts>>

\* the counters are set to zero and self.selected_files is read
WorkerBegin ==
    /\ worker.pc = "start"
    /\ worker' = [worker EXCEPT !.pc = "loop", !.batch = app.selected_files,
                                !.total_files = Len(app.selected_files)]
    /\ UNCHANGED <<pc, app, ui, files>> /\ AppUnchanged

\* the next input_file of the loop: its output path, and whether it exists
WorkerNextFile ==
    /\ worker.pc = "loop"
    /\ worker.idx < Len(worker.batch)
    /\ \E out \in {output_path(app.output_dir, worker.batch[worker.idx + 1])} :
           worker' = [worker EXCEPT !.output_file = out,
                                    !.asked = out \in files,
                                    !.pc = IF out \in files THEN "clear" ELSE "process"]
    /\ UNCHANGED <<pc, app, ui, files>> /\ AppUnchanged

\* self._overwrite_event.clear()
WorkerClear ==
    /\ worker.pc = "clear"
    /\ app' = [app EXCEPT !._overwrite_event = FALSE]
    /\ worker' = [worker EXCEPT !.pc = "after"]
    /\ UNCHANGED <<pc, ui, files>> /\ AppUnchanged

\* self.after(0, self._show_overwrite_dialog, output_file)
WorkerSchedule ==
    /\ worker.pc = "after"
    /\ app' = [app EXCEPT !.after_queue = Append(@, DialogCall(worker.output_file)),
                          !.scheduled = Append(@, DialogCall(worker.output_file))]
    /\ worker' = [worker EXCEPT !.pc = "wait"]
    /\ UNCHANGED <<pc, ui, files>> /\ AppUnchanged

\* a wait that returns whether or not the event is set
WorkerWait_unblocked ==
    /\ worker.pc = "wait"
    /\ worker' = [worker EXCEPT !.pc = "read534"]
    /\ UNCHANGED <<pc, app, ui, files>> /\ AppUnchanged

\* self._overwrite_event.wait() returns once the event is set
WorkerWait ==
    /\ worker.pc = "wait"
    /\ app._overwrite_event
    /\ worker' = [worker EXCEPT !.pc = "read534"]
    /\ UNCHANGED <<pc, app, ui, files>> /\ AppUnchanged

\* if self._overwrite_result == "skip": count, record, continue
WorkerReadSkip ==
    /\ worker.pc = "read534"
    /\ IF app._overwrite_result = "skip"
       THEN worker' = [worker EXCEPT
                          !.skip_count = @ + 1,
                          !.results = Append(@, ResultLine(worker.batch[worker.idx + 1].name,
                                                           "skipped", <<>>)),
                          !.idx = @ + 1, !.pc = "loop"]
       ELSE worker' = [worker EXCEPT !.pc = "read538"]
    /\ UNCHANGED <<pc, app, ui, files>> /\ AppUnchanged

\* elif self._overwrite_result == "rename": the unique file name
WorkerReadRename ==
    /\ worker.pc = "read538"
    /\ worker' = [worker EXCEPT
                     !.output_file = IF app._overwrite_result = "rename"
                                     THEN get_unique_filename(@, files) ELSE @,
                     !.pc = "process"]
    /\ UNCHANGED <<pc, app, ui, files>> /\ AppUnchanged

\* the exception of process_file that is not caught: the loop ends
WorkerProcess_uncaught ==
    /\ worker.pc = "process"
    /\ \E outcome \in ProcessOutcomes :
           IF outcome = "returned"
           THEN /\ files' = files \cup {worker.output_file}
                /\ worker' = [worker EXCEPT
                       !.success_count = @ + 1,
                       !.output_files = Append(@, worker.output_file),
                       !.results = Append(@, ResultLine(worker.batch[worker.idx + 1].name,
                                                        "ok", worker.output_file)),
                       !.idx = @ + 1, !.pc = "loop"]
           ELSE /\ UNCHANGED files
                /\ worker' = [worker EXCEPT !.pc = "loop", !.idx = Len(worker.batch)]
    /\ UNCHANGED <<pc, app, ui>> /\ AppUnchanged

\* set_progress_callback, process_file and the bookkeeping after it, or the
\* except clause
WorkerProcess ==
    /\ worker.pc = "process"
    /\ \E outcome \in ProcessOutcomes :
           IF outcome = "returned"
           THEN /\ files' = files \cup {worker.output_file}
                /\ worker' = [worker EXCEPT
                       !.success_count = @ + 1,
                       !.output_files = Append(@, worker.output_file),
                       !.results = Append(@, ResultLine(worker.batch[worker.idx + 1].name,
                                                        "ok", worker.output_file)),
                       !.idx = @ + 1, !.pc = "loop"]
           ELSE /\ UNCHANGED files
                /\ worker' = [worker EXCEPT
                       !.fail_count = @ + 1,
                       !.results = Append(@, ResultLine(worker.batch[worker.idx + 1].name,
                                                        "failed", outcome)),
                       !.idx = @ + 1, !.pc = "loop"]
    /\ UNCHANGED <<pc, app, ui>> /\ AppUnchanged

\* after the loop: self.after(0, self._on_process_complete, ...)
WorkerFinish ==
    /\ worker.pc = "loop"
    /\ worker.idx = Len(worker.batch)
    /\ app' = [app EXCEPT !.after_queue = Append(@, CompleteCall(worker)),
                          !.scheduled = Append(@, CompleteCall(worker))]
    /\ worker' = [worker EXCEPT !.pc = "returned"]
    /\ UNCHANGED <<pc, ui, files>> /\ AppUnchanged

\* the UI thread runs _show_overwrite_dialog: the message box opens
DialogOpen ==
    /\ ui.handler = "idle"
    /\ app.after_queue # <<>>
    /\ Head(app.after_queue).fn = "_show_overwrite_dialog"
    /\ ui' = [ui EXCEPT !.handler = "askyesnocancel",
                        !.filepath = Head(app.after_queue).filepath]
    /\ app' = [app EXCEPT !.after_queue = Tail(@)]
    /\ UNCHANGED <<pc, worker, files>> /\ AppUnchanged

\* the user answers; the answer is stored in self._overwrite_result
DialogAnswer ==
    /\ ui.handler = "askyesnocancel"
    /\ \E choice \in Choices :
           /\ app' = [app EXCEPT !._overwrite_result = choice]
           /\ ui' = [ui EXCEPT !.handler = "set",
                               !.answers = Append(@, [filepath |-> ui.filepath,
                                                      choice |-> choice])]
    /\ UNCHANGED <<pc, worker, files>> /\ AppUnchanged

\* self._overwrite_event.set()
DialogSet ==
    /\ ui.handler = "set"
    /\ app' = [app EXCEPT !._overwrite_event = TRUE]
    /\ ui' = [ui EXCEPT !.handler = "idle"]
    /\ UNCHANGED <<pc, worker, files>> /\ AppUnchanged

\* the UI thread runs _on_process_complete
OnProcessComplete ==
    /\ ui.handler = "idle"
    /\ app.after_queue # <<>>
    /\ Head(app.after_queue).fn = "_on_process_complete"
    /\ app' = [app EXCEPT !.after_queue = Tail(@), !.generate_btn = "normal"]
    /\ ui' = [ui EXCEPT !.completed = @ + 1]
    /\ pc' = "complete"
    /\ UNCHANGED <<worker, files>> /\ AppUnchanged

WorkerStep ==
    \/ WorkerBegin \/ WorkerNextFile \/ WorkerClear \/ WorkerSchedule \/ WorkerWait
    \/ WorkerReadSkip \/ WorkerReadRename \/ WorkerProcess \/ WorkerFinish

NextApp == WorkerStep \/ DialogOpen \/ DialogAnswer \/ DialogSet \/ OnProcessComplete

SpecApp == InitApp /\ [][NextApp]_vars

\* both threads keep running; nothing obliges the user to answer
SpecAppFair ==
    SpecApp /\ WF_vars(WorkerStep) /\ WF_vars(DialogOpen) /\ WF_vars(DialogSet)
               /\ WF_vars(OnProcessComplete)


\* the dialogs the worker has scheduled so far
DialogsScheduled == SelectSeq(app.scheduled, LAMBDA c : c.fn = "_show_overwrite_dialog")

\* the output path of the file the loop is at, before any renaming
CurrentOutput == output_path(app.output_dir, worker.batch[worker.idx + 1])

\* the worker is past the wait for a file whose output path existed
PastWait == worker.pc \in {"read534", "read538"} \/ (worker.pc = "process" /\ worker.asked)

\* the user has answered the dialog of the file the worker waits for
Answered == worker.pc = "wait" /\ Len(ui.answers) = Len(DialogsScheduled)

C24_Safe ==
    /\ worker.pc \in {"after", "wait"} /\ ~Answered => ~app._overwrite_event
    /\ PastWait =>
          /\ Len(ui.answers) = Len(DialogsScheduled)
          /\ ui.answers[Len(ui.answers)].filepath = CurrentOutput
          /\ app._overwrite_result = ui.answers[Len(ui.answers)].choice
          /\ app._overwrite_event
          /\ ui.handler = "idle"
          /\ app._overwrite_result # "skip" \/ worker.pc = "read534"
    /\ worker.pc = "process" /\ worker.asked =>
          worker.output_file =
              IF ui.answers[Len(ui.answers)].choice = "rename"
              THEN get_unique_filename(CurrentOutput, files) ELSE CurrentOutput
    /\ \A k \in 1..Len(worker.results) :
          worker.results[k].kind = "skipped" =>
              \E n \in 1..Len(ui.answers) :
                  /\ ui.answers[n].choice = "skip"
                  /\ ui.answers[n].filepath = output_path(app.output_dir, worker.batch[k])
    /\ worker.pc = "process" /\ ~worker.asked => worker.output_file \notin files

\* C24: when the output path exists the worker clears the event, schedules
\* the dialog and blocks; it reads _overwrite_result and goes on with the
\* file only after the dialog of that file has stored the answer and set
\* the event; it acts on that answer, never on the answer to an earlier
\* file; and once the user has answered, the worker resumes.
C24_WaitsForOwnAnswer == []C24_Safe /\ (Answered ~> worker.pc # "wait")

\* the second file of the run goes to the path the first one was written to
\* after "overwrite"; the worker acts on the second answer, "rename"
C24_Witness ==
    /\ worker.pc = "process" /\ worker.asked
    /\ worker.idx = 1
    /\ Len(ui.answers) = 2
    /\ ui.answers[1].choice = "overwrite" /\ ui.answers[2].choice = "rename"
    /\ ui.answers[1].filepath = ui.answers[2].filepath
    /\ worker.output_file # CurrentOutput
    /\ worker.output_file \notin files

\* the number of result lines of one kind
CountKind(kind) ==
    Cardinality({k \in 1..Len(worker.results) : worker.results[k].kind = kind})

CompletionsScheduled ==
    SelectSeq(app.scheduled, LAMBDA c : c.fn = "_on_process_complete")

\* C26: every file of the list is handled once, in list order; a failure is
\* counted for its file and the loop goes on; at the end the three counters
\* add up to the number of files and the completion callback is scheduled
\* once.
C26_EveryFileHandledOnce ==
    /\ worker.pc # "start" => worker.batch = app.selected_files
    /\ worker.idx <= Len(worker.batch)
    /\ Len(worker.results) = worker.idx
    /\ \A k \in 1..Len(worker.results) : worker.results[k].filename = worker.batch[k].name
    /\ worker.success_count = CountKind("ok")
    /\ worker.fail_count = CountKind("failed")
    /\ worker.skip_count = CountKind("skipped")
    /\ worker.success_count + worker.fail_count + worker.skip_count = worker.idx
    /\ Len(worker.output_files) = worker.success_count
    /\ Len(CompletionsScheduled) = IF worker.pc = "returned" THEN 1 ELSE 0
    /\ worker.pc = "returned" =>
          /\ worker.idx = Len(app.selected_files)
          /\ worker.success_count + worker.fail_count + worker.skip_count
                = Len(app.selected_files)
          /\ CompletionsScheduled = <<CompleteCall(worker)>>
    /\ ui.completed <= 1
    /\ pc = "complete" => worker.pc = "returned" /\ ui.completed = 1

\* the first of two files failed on saving, the second was written, and the
\* completion callback has run
C26_Witness ==
    /\ pc = "complete"
    /\ Len(worker.batch) = 2
    /\ worker.results[1].kind = "failed" /\ worker.results[1].detail = "IOError"
    /\ worker.results[2].kind = "ok"
    /\ worker.fail_count = 1 /\ worker.success_count = 1 /\ worker.skip_count = 0
    /\ worker.results[2].detail \in files

=============================================================================
